---- MODULE Spec2Model ----
(***************************************************************************)
(* A model of the Haar-cascade detector of tracking.js:                    *)
(*   - DisjointSet (utils/DisjointSet), the union-find structure;          *)
(*   - ViolaJones.mergeRectangles_, the rectangle merger;                  *)
(*   - ViolaJones.detect / evalStages_ / isTriviallyExcluded, the          *)
(*     multiscale scanner, the stage evaluator and the edge pruner.        *)
(* Arrays are functions over 0..n-1, so that indices are the code's.       *)
(* JavaScript numbers that are not integers are exact rationals <<n, d>>   *)
(* (d > 0); the inputs are dyadic, so the double arithmetic of the code    *)
(* is exact on them.                                                       *)
(***************************************************************************)
EXTENDS Integers, Sequences, FiniteSets, TLC

VARIABLES
    phase,      \* which object / call the behaviour is about, and where it is
    parent,     \* DisjointSet.parent
    unions,     \* history: the pairs union() has been called with
    rects,      \* mergeRectangles_: the raw rectangles, rects[0 .. n-1]
    map,        \* mergeRectangles_: representative -> accumulated rectangle
    result,     \* mergeRectangles_: the list returned
    unionCalls, \* history: the ordered pairs <<i, j>> passed to union
    tested,     \* history: the ordered pairs the overlap test was made for
    width, height, initialScale, scaleFactor, stepSize, edgesDensity,
    data,       \* detect: the parameters; data is the flat cascade
    pixels,     \* detect: the pixel buffer, as the gray value and the Sobel
                \* magnitude computeIntegralImage takes from each pixel
    integralImage, integralImageSquare, tiltedIntegralImage, integralImageSobel,
    scale, blockWidth, blockHeight, step,
    scanI, scanJ,   \* detect: the loop variables i and j
    lastWindow, \* history: the last window of the scan and what was done with it
    visited,    \* history: the windows <<scale, i, j>> the scan has been at
    revisited,  \* history: the scan has been at a window it had been at before
    returned,   \* history: the lists the earlier detect calls returned
    args,       \* intersectRect: the arguments <<x0, y0, x1, y1, x2, y2, x3, y3>>
    answer,     \* intersectRect: the value returned
    lastFind,   \* history: the last call, if a find: its argument, the parent
                \* array before it, and the value returned
    tracker_,   \* TrackerTask.tracker_: which tracker the task manages
    running_,   \* TrackerTask.running_
    reemitTrackEvent_,  \* TrackerTask.reemitTrackEvent_: which closure, 0 if undefined
    listeners,  \* the 'track' listeners registered on each tracker
    emitted,    \* history: the events the task has emitted, in order
    taskCall,   \* history: the last call and the state of the task before it
    classifiers,    \* ObjectTracker.classifiers
    tracked,    \* history: the data of the 'track' events the tracker emitted
    objectCall  \* history: the last call on the tracker and how it ended

(***************************************************************************)
(* Bounds                                                                  *)
(***************************************************************************)
MaxSetLen == 3
MaxRects == 3
MaxCalls == 2
MaxCoord == 2

(***************************************************************************)
(* Helpers                                                                 *)
(***************************************************************************)
Abs(x) == IF x < 0 THEN -x ELSE x
Min(a, b) == IF a < b THEN a ELSE b
Max(a, b) == IF a > b THEN a ELSE b

\* F applied to the value of e: e is computed once, as the initializer of a
\* local variable is
With(e, F(_)) == CHOOSE r \in {F(x) : x \in {e}} : TRUE

(***************************************************************************)
(* JavaScript numbers.  A number is <<n, d>>: the rational n/d when d > 0  *)
(* (in lowest terms), +Infinity <<1, 0>>, -Infinity <<-1, 0>>, NaN         *)
(* <<0, 0>>.  A read of a missing array cell (undefined) gives NaN in      *)
(* every arithmetic use the modelled code makes of it.  Zero has no sign.  *)
(***************************************************************************)
GCD[a \in Nat, b \in Nat] == IF b = 0 THEN a ELSE GCD[b, a % b]

Sign(n) == IF n > 0 THEN 1 ELSE IF n < 0 THEN -1 ELSE 0

Norm(n, d) ==
    IF d = 0 THEN <<Sign(n), 0>>
    ELSE LET g == GCD[Abs(n), Abs(d)]
         IN  <<Sign(d) * (n \div g), Abs(d) \div g>>

Num(k) == <<k, 1>>
NaN == <<0, 0>>
IsNaN(a) == a = NaN
IsFinite(a) == a[2] > 0

\* An operation is a function applied to its operands, each operand being
\* computed once.
Nums == Int \X Int

NMul(a, b) ==
    [x \in Nums, y \in Nums |->
        IF IsNaN(x) \/ IsNaN(y) THEN NaN ELSE Norm(x[1] * y[1], x[2] * y[2])][a, b]

NDiv(a, b) ==
    [x \in Nums, y \in Nums |->
        IF IsNaN(x) \/ IsNaN(y) THEN NaN
        ELSE IF y[1] < 0 THEN Norm(-(x[1] * y[2]), -(x[2] * y[1]))
        ELSE Norm(x[1] * y[2], x[2] * y[1])][a, b]

NNeg(a) == [x \in Nums |-> <<-x[1], x[2]>>][a]

NAdd(a, b) ==
    [x \in Nums, y \in Nums |->
        IF IsNaN(x) \/ IsNaN(y) THEN NaN
        ELSE IF ~IsFinite(x) /\ ~IsFinite(y) THEN (IF x = y THEN x ELSE NaN)
        ELSE IF ~IsFinite(x) THEN x
        ELSE IF ~IsFinite(y) THEN y
        ELSE Norm(x[1] * y[2] + y[1] * x[2], x[2] * y[2])][a, b]

NSub(a, b) == NAdd(a, NNeg(b))

NSquare(a) == [x \in Nums |-> NMul(x, x)][a]

\* a < b; false when either is NaN
NLt(a, b) ==
    [x \in Nums, y \in Nums |->
        IF IsNaN(x) \/ IsNaN(y) THEN FALSE
        ELSE IF IsFinite(x) /\ IsFinite(y) THEN x[1] * y[2] < y[1] * x[2]
        ELSE IF ~IsFinite(x) THEN x[1] < 0 /\ y # x
        ELSE y[1] > 0][a, b]

\* a >= b; false when either is NaN
NGe(a, b) == [x \in Nums, y \in Nums |-> ~IsNaN(x) /\ ~IsNaN(y) /\ ~NLt(x, y)][a, b]

\* a > 0
NPositive(a) == NLt(Num(0), a)

\* x | 0: NaN and the infinities give 0, the rest is truncated towards zero
\* (the values of the model stay far inside 32 bits)
ToInt32(a) ==
    [x \in Nums |->
        IF ~IsFinite(x) THEN 0
        ELSE IF x[1] >= 0 THEN x[1] \div x[2]
        ELSE -((-x[1]) \div x[2])][a]

\* a slip of the constructor: one element too many (i <= length)
MutDisjointSetNewOneMore(length) == [i \in 0 .. length |-> i]

(***************************************************************************)
(* DisjointSet                                                             *)
(***************************************************************************)
\* constructor: parent[i] = i for i in 0..length-1
DisjointSetNew(length) == [i \in 0 .. length - 1 |-> i]

\* find(i), the value returned: follows parent pointers to a self-parented cell
RECURSIVE FindRep(_, _)
FindRep(p, i) == IF p[i] = i THEN i ELSE FindRep(p, p[i])

\* find(i), the array afterwards: each cell visited by the recursion is
\* assigned the value the recursion returns (this.parent[i] = this.find(...))
\* a slip of find: the value of the recursion returned without the
\* assignment to parent[i]
MutFindWithoutAssignment(p, i) == p

RECURSIVE FindCompress(_, _)
FindCompress(p, i) ==
    IF p[i] = i THEN p
    ELSE LET q == FindCompress(p, p[i])
         IN  [q EXCEPT ![i] = FindRep(p, p[i])]

\* a slip of union: the cell of i itself, not of its representative, is linked
MutUnionLinksElement(p, i, j) == [p EXCEPT ![i] = FindRep(p, j)]

\* a slip of union: the representative of i is linked to j itself, not to
\* the representative of j
MutUnionLinksToElement(p, i, j) ==
    [FindCompress(p, i) EXCEPT ![FindRep(p, i)] = j]

\* union(i, j): parent[find(i)] = find(j); find(i) runs, and compresses, first
DisjointSetUnion(p, i, j) ==
    LET iRepresentative == FindRep(p, i)
        p1 == FindCompress(p, i)
        jRepresentative == FindRep(p1, j)
        p2 == FindCompress(p1, j)
    IN  [p2 EXCEPT ![iRepresentative] = jRepresentative]

mergeVars == <<rects, map, result, unionCalls, tested>>
paramVars == <<width, height, initialScale, scaleFactor, stepSize, edgesDensity>>
tableVars == <<integralImage, integralImageSquare, tiltedIntegralImage,
               integralImageSobel>>
arrayVars == <<data, pixels, tableVars>>
inputVars == <<paramVars, arrayVars>>
scanVars == <<scale, blockWidth, blockHeight, step, scanI, scanJ, lastWindow>>
callVars == <<visited, revisited, returned>>
mathVars == <<args, answer>>
findVars == <<lastFind>>
taskVars == <<tracker_, running_, reemitTrackEvent_, listeners, emitted, taskCall>>
objectVars == <<classifiers, tracked, objectCall>>
elseVars == <<findVars, taskVars, objectVars>>

\* the variables of detect, in a behaviour that is no detect call
NoDetect ==
    /\ width = 0 /\ height = 0
    /\ initialScale = <<1, 1>> /\ scaleFactor = <<1, 1>> /\ stepSize = <<1, 1>>
    /\ edgesDensity = <<0, 1>> /\ data = <<>> /\ pixels = <<>>
    /\ integralImage = <<>> /\ integralImageSquare = <<>>
    /\ tiltedIntegralImage = <<>> /\ integralImageSobel = <<>>
    /\ scale = <<1, 1>> /\ blockWidth = 0 /\ blockHeight = 0 /\ step = 0
    /\ scanI = 0 /\ scanJ = 0
    /\ lastWindow = [evalCalled |-> FALSE, pruneCalled |-> FALSE]
    /\ visited = {} /\ revisited = FALSE /\ returned = <<>>

\* the variables of intersectRect, in a behaviour that is no call of it
NoMath == args = <<>> /\ answer = FALSE

\* no find has been called since construction or the last union
NoFind == [called |-> FALSE]

\* no call has been made on the object
NoCall == [op |-> "none"]

\* the variables of a TrackerTask, in a behaviour without one
NoTask ==
    /\ tracker_ = 0 /\ running_ = FALSE /\ reemitTrackEvent_ = 0
    /\ listeners = <<>> /\ emitted = <<>> /\ taskCall = NoCall

\* the variables of an ObjectTracker, in a behaviour without one
NoObject ==
    /\ classifiers = [defined |-> FALSE] /\ tracked = <<>> /\ objectCall = NoCall

\* the variables of the other objects, in a behaviour that is not theirs
NoElse == lastFind = NoFind /\ NoTask /\ NoObject

DSInit ==
    /\ phase = "ds"
    /\ \E n \in 1 .. MaxSetLen : parent = DisjointSetNew(n)
    /\ unions = {}
    /\ rects = <<>> /\ map = <<>> /\ result = <<>>
    /\ unionCalls = {} /\ tested = {}
    /\ NoDetect /\ NoMath /\ NoElse

Union(a, b) ==
    /\ phase = "ds"
    /\ parent' = DisjointSetUnion(parent, a, b)
    /\ unions' = unions \cup {<<Min(a, b), Max(a, b)>>}
    /\ lastFind' = NoFind
    /\ UNCHANGED <<phase, mergeVars, inputVars, callVars, mathVars, scanVars, taskVars,
                   objectVars>>

Find(i) ==
    /\ phase = "ds"
    /\ parent' = FindCompress(parent, i)
    /\ lastFind' = [called |-> TRUE, i |-> i, parent |-> parent,
                    returned |-> FindRep(parent, i)]
    /\ UNCHANGED <<phase, unions, mergeVars, inputVars, callVars, mathVars, scanVars,
                   taskVars, objectVars>>

DSNext ==
    \/ \E a, b \in DOMAIN parent : Union(a, b)
    \/ \E i \in DOMAIN parent : Find(i)

vars == <<phase, parent, unions, mergeVars, inputVars, scanVars, callVars, mathVars, elseVars>>

SpecDS == DSInit /\ [][DSNext]_vars

(***************************************************************************)
(* TrackingMath.intersectRect and ViolaJones.mergeRectangles_              *)
(***************************************************************************)
\* a slip of intersectRect: the four conditions joined by && instead of ||
MutIntersectConjunction(x0, y0, x1, y1, x2, y2, x3, y3) ==
    ~(x2 > x1 /\ x3 < x0 /\ y2 > y1 /\ y3 < y0)

\* a slip of intersectRect: boxes that touch count as apart
MutIntersectTouchApart(x0, y0, x1, y1, x2, y2, x3, y3) ==
    ~(x2 >= x1 \/ x3 <= x0 \/ y2 >= y1 \/ y3 <= y0)

IntersectRect(x0, y0, x1, y1, x2, y2, x3, y3) ==
    ~(x2 > x1 \/ x3 < x0 \/ y2 > y1 \/ y3 < y0)

\* one call of intersectRect, with coordinates of 0 .. MaxCoord
IntersectInit ==
    /\ phase = "intersect"
    /\ args \in [1 .. 8 -> 0 .. MaxCoord]
    /\ answer = FALSE
    /\ parent = <<>> /\ unions = {}
    /\ rects = <<>> /\ map = <<>> /\ result = <<>>
    /\ unionCalls = {} /\ tested = {}
    /\ NoDetect /\ NoElse

IntersectCall ==
    /\ phase = "intersect"
    /\ answer' = IntersectRect(args[1], args[2], args[3], args[4],
                               args[5], args[6], args[7], args[8])
    /\ phase' = "intersected"
    /\ UNCHANGED <<args, parent, unions, mergeVars, inputVars, scanVars, callVars, elseVars>>

SpecIntersect == IntersectInit /\ [][IntersectCall]_vars

\* a slip of the constant: a quarter instead of a half
MutRegionsOverlapQuarter == <<1, 4>>

REGIONS_OVERLAP == <<1, 2>>
Half == <<1, 2>>

ArrayLen(a) == Cardinality(DOMAIN a)

Rect(x, y, w, h) == [x |-> x, y |-> y, width |-> w, height |-> h, total |-> 0]

\* the bounding boxes of r1 and r2 intersect (the call of intersectRect)
BoxesIntersect(r1, r2) ==
    IntersectRect(r1.x, r1.y, r1.x + r1.width, r1.y + r1.height,
                  r2.x, r2.y, r2.x + r2.width, r2.y + r2.height)

\* (x1 - x2) * (y1 - y2) of the intersection box
OverlapArea(r1, r2) ==
    LET x1 == Max(r1.x, r2.x)
        y1 == Max(r1.y, r2.y)
        x2 == Min(r1.x + r1.width, r2.x + r2.width)
        y2 == Min(r1.y + r1.height, r2.y + r2.height)
    IN  (x1 - x2) * (y1 - y2)

\* a slip of the overlap test: one ratio reaching the minimum is enough
MutOverlapEither(r1, r2) ==
    LET overlap == Num(OverlapArea(r1, r2))
        area1 == Num(r1.width * r1.height)
        area2 == Num(r2.width * r2.height)
    IN  \/ NGe(NDiv(overlap, NMul(area1, NDiv(area1, area2))), REGIONS_OVERLAP)
        \/ NGe(NDiv(overlap, NMul(area2, NDiv(area1, area2))), REGIONS_OVERLAP)

\* the two area-normalized ratios both reach REGIONS_OVERLAP
OverlapEnough(r1, r2) ==
    LET overlap == Num(OverlapArea(r1, r2))
        area1 == Num(r1.width * r1.height)
        area2 == Num(r2.width * r2.height)
    IN  /\ NGe(NDiv(overlap, NMul(area1, NDiv(area1, area2))), REGIONS_OVERLAP)
        /\ NGe(NDiv(overlap, NMul(area2, NDiv(area1, area2))), REGIONS_OVERLAP)

\* the body of the two nested loops for the pair (i, j)
PairStep(st, rs, i, j) ==
    IF BoxesIntersect(rs[i], rs[j]) /\ OverlapEnough(rs[i], rs[j])
    THEN [parent     |-> DisjointSetUnion(st.parent, i, j),
          unionCalls |-> st.unionCalls \cup {<<i, j>>},
          tested     |-> st.tested \cup {<<i, j>>}]
    ELSE [st EXCEPT !.tested = @ \cup {<<i, j>>}]

\* for (j = 0; j < rects.length; j++), for one i
RECURSIVE PairRow(_, _, _, _)
PairRow(st, rs, i, j) ==
    IF j >= ArrayLen(rs) THEN st
    ELSE With(PairStep(st, rs, i, j), LAMBDA next : PairRow(next, rs, i, j + 1))

\* for (i = 0; i < rects.length; i++)
RECURSIVE PairLoop(_, _, _)
\* a slip of the inner loop: for (j = i; ...), each pair tested in one
\* direction only
MutPairLoopFromDiagonal(st, rs, i) ==
    IF i >= ArrayLen(rs) THEN st
    ELSE With(PairRow(st, rs, i, i), LAMBDA next : PairLoop(next, rs, i + 1))

PairLoop(st, rs, i) ==
    IF i >= ArrayLen(rs) THEN st
    ELSE With(PairRow(st, rs, i, 0), LAMBDA next : PairLoop(next, rs, i + 1))

\* a slip of the grouping: map[rep].total++ left out
MutGroupStepTotalKept(st, rs, k) ==
    LET rep == FindRep(st.parent, k)
        p == FindCompress(st.parent, k)
    IN  IF rep \notin DOMAIN st.map
        THEN [parent |-> p,
              map |-> [r \in DOMAIN st.map \cup {rep} |->
                          IF r = rep
                          THEN [total |-> 1, width |-> rs[k].width,
                                height |-> rs[k].height,
                                x |-> rs[k].x, y |-> rs[k].y]
                          ELSE st.map[r]]]
        ELSE [parent |-> p,
              map |-> [st.map EXCEPT
                          ![rep] = [total |-> @.total,
                                    width |-> @.width + rs[k].width,
                                    height |-> @.height + rs[k].height,
                                    x |-> @.x + rs[k].x,
                                    y |-> @.y + rs[k].y]]]

\* the body of the grouping loop for k: find(k), then create or add
GroupStep(st, rs, k) ==
    LET rep == FindRep(st.parent, k)
        p == FindCompress(st.parent, k)
    IN  IF rep \notin DOMAIN st.map
        THEN [parent |-> p,
              map |-> [r \in DOMAIN st.map \cup {rep} |->
                          IF r = rep
                          THEN [total |-> 1, width |-> rs[k].width,
                                height |-> rs[k].height,
                                x |-> rs[k].x, y |-> rs[k].y]
                          ELSE st.map[r]]]
        ELSE [parent |-> p,
              map |-> [st.map EXCEPT
                          ![rep] = [total |-> @.total + 1,
                                    width |-> @.width + rs[k].width,
                                    height |-> @.height + rs[k].height,
                                    x |-> @.x + rs[k].x,
                                    y |-> @.y + rs[k].y]]]

RECURSIVE GroupLoop(_, _, _)
GroupLoop(st, rs, k) ==
    IF k >= ArrayLen(st.parent) THEN st
    ELSE With(GroupStep(st, rs, k), LAMBDA next : GroupLoop(next, rs, k + 1))

\* a slip of the average: truncated, the + 0.5 forgotten
MutAverageTruncates(sum, total) == ToInt32(NDiv(Num(sum), Num(total)))

\* (sum / total + 0.5) | 0
Average(sum, total) == ToInt32(NAdd(NDiv(Num(sum), Num(total)), Half))

\* a slip of the result: width and height exchanged
MutEmitRectSwapped(rect) ==
    [total  |-> rect.total,
     width  |-> Average(rect.height, rect.total),
     height |-> Average(rect.width, rect.total),
     x      |-> Average(rect.x, rect.total),
     y      |-> Average(rect.y, rect.total)]

EmitRect(rect) ==
    [total  |-> rect.total,
     width  |-> Average(rect.width, rect.total),
     height |-> Average(rect.height, rect.total),
     x      |-> Average(rect.x, rect.total),
     y      |-> Average(rect.y, rect.total)]

\* a slip of the return: the raw list instead of the groups
MutEmitRaw(m, keys) == [i \in 1 .. ArrayLen(rects) |-> rects[i - 1]]

\* Object.keys(map).forEach: integer keys come in ascending order, the
\* i-th rectangle pushed is that of the i-th smallest key
EmitResult(m, keys) ==
    [i \in 1 .. Cardinality(keys) |->
        EmitRect(m[CHOOSE key \in keys :
                      Cardinality({b \in keys : b < key}) = i - 1])]

\* mergeRectangles_(rects), as one function
MergeRectangles(rs) ==
    LET s1 == PairLoop([parent |-> DisjointSetNew(ArrayLen(rs)),
                        unionCalls |-> {}, tested |-> {}], rs, 0)
        s2 == GroupLoop([parent |-> s1.parent, map |-> <<>>], rs, 0)
    IN  EmitResult(s2.map, DOMAIN s2.map)

\* the raw rectangles of the merger checks: unit boxes, 2x2 boxes and 2x1
\* boxes on a 3x3 grid, and one box of zero area
RawRects ==
    {Rect(x, y, 1, 1) : x \in 0 .. 2, y \in {0, 2}}
        \cup {Rect(x, y, 2, 2) : x \in 0 .. 1, y \in 0 .. 1}
        \cup {Rect(0, 0, 2, 1), Rect(1, 1, 2, 1)}
        \cup {Rect(1, 1, 0, 2)}

\* the two rectangles of the worked example of the specification
ScenarioB == [i \in 0 .. 1 |-> IF i = 0 THEN Rect(0, 0, 10, 10) ELSE Rect(5, 5, 10, 10)]

RawRectLists ==
    UNION {[0 .. n - 1 -> RawRects] : n \in 0 .. MaxRects} \cup {ScenarioB}

MergeInit ==
    /\ phase = "pairs"
    /\ rects \in RawRectLists
    /\ parent = DisjointSetNew(ArrayLen(rects))
    /\ unions = {}
    /\ map = <<>> /\ result = <<>>
    /\ unionCalls = {} /\ tested = {}
    /\ NoDetect /\ NoMath /\ NoElse

\* the two nested loops
MergePairs ==
    /\ phase = "pairs"
    /\ LET st == PairLoop([parent |-> parent, unionCalls |-> {}, tested |-> {}],
                          rects, 0)
       IN  /\ parent' = st.parent
           /\ unionCalls' = st.unionCalls
           /\ tested' = st.tested
    /\ phase' = "group"
    /\ UNCHANGED <<unions, rects, map, result, inputVars, callVars, mathVars, elseVars, scanVars>>

\* rects[k] is undefined for an element k of the set: reading its width
\* throws a TypeError
GroupThrows(p, rs) == \E k \in DOMAIN p : k \notin DOMAIN rs

\* a slip of the grouping: the map of the earlier call is used again
MutMapKept == map

\* const map = {}
NewMap == <<>>

\* the grouping loop
MergeGroup ==
    /\ phase = "group"
    /\ IF GroupThrows(parent, rects)
       THEN phase' = "threw" /\ UNCHANGED <<parent, map>>
       ELSE /\ LET st == GroupLoop([parent |-> parent, map |-> NewMap], rects, 0)
               IN  /\ parent' = st.parent
                   /\ map' = st.map
            /\ phase' = "emit"
    /\ UNCHANGED <<unions, rects, result, unionCalls, tested, inputVars, callVars, mathVars, elseVars, scanVars>>

\* the result list
MergeEmit ==
    /\ phase = "emit"
    /\ result' = EmitResult(map, DOMAIN map)
    /\ phase' = "merged"
    /\ UNCHANGED <<parent, unions, rects, map, unionCalls, tested, inputVars, callVars, mathVars, elseVars, scanVars>>

MergeNext == MergePairs \/ MergeGroup \/ MergeEmit

SpecMerge == MergeInit /\ [][MergeNext]_vars

(***************************************************************************)
(* Image.computeIntegralImage: the tables detect reads.  gray[k] is the    *)
(* gray value the builder computes for pixel k, sobel[k] its Sobel         *)
(* magnitude; a table cell not yet written or outside the array reads 0    *)
(* through "|| 0".                                                         *)
(***************************************************************************)
Cell(T, k, w) == IF k >= 0 /\ k < w THEN T[k] ELSE 0

\* computePixelValueSAT_ for the cells 0 .. w-1, in row-major order
RECURSIVE SATUpTo(_, _, _, _)
SATUpTo(pix, wd, n, w) ==
    IF w = 0 THEN [k \in 0 .. n - 1 |-> 0]
    ELSE LET T == SATUpTo(pix, wd, n, w - 1)
             c == w - 1
         IN  [T EXCEPT ![c] = Cell(T, c - wd, c) + Cell(T, c - 1, c) + pix[c]
                                  - Cell(T, c - wd - 1, c)]

\* computePixelValueRSAT_ for the cells 0 .. w-1, in row-major order
RECURSIVE RSATUpTo(_, _, _, _)
RSATUpTo(pix, wd, n, w) ==
    IF w = 0 THEN [k \in 0 .. n - 1 |-> 0]
    ELSE LET T == RSATUpTo(pix, wd, n, w - 1)
             c == w - 1
             pixelAbove == IF c - wd >= 0 THEN pix[c - wd] ELSE 0
         IN  [T EXCEPT ![c] = Cell(T, c - wd - 1, c) + Cell(T, c - wd + 1, c)
                                  - Cell(T, c - wd - wd, c)
                                  + pix[c] + pixelAbove]

IntegralImage(pix, wd, ht) == SATUpTo(pix, wd, wd * ht, wd * ht)
IntegralImageSquare(pix, wd, ht) ==
    SATUpTo([k \in DOMAIN pix |-> pix[k] * pix[k]], wd, wd * ht, wd * ht)
TiltedIntegralImage(pix, wd, ht) ==
    RSATUpTo(pix, wd, wd * ht, wd * ht)

(***************************************************************************)
(* ViolaJones.isTriviallyExcluded and ViolaJones.evalStages_               *)
(***************************************************************************)
\* data[w]: undefined, NaN in arithmetic, beyond the end of the array
DataRead(d, w) == IF w \in DOMAIN d THEN Num(d[w]) ELSE NaN

\* a typed-array read: undefined, NaN in arithmetic, outside the array
TableRead(T, k) == IF k \in DOMAIN T THEN Num(T[k]) ELSE NaN

\* T[a] - T[b] - T[d] + T[c]
FourCorners(T, a, b, d, c) ==
    NAdd(NSub(NSub(TableRead(T, a), TableRead(T, b)), TableRead(T, d)), TableRead(T, c))

Truthy(a) == ~IsNaN(a) /\ a # Num(0)

\* a slip of the pruner: the comparison turned round
MutExcludesDense(density, sobelTable, i, j, w, bw, bh) ==
    NLt(density, NDiv(FourCorners(sobelTable, i * w + j, i * w + j + bw,
                                  i * w + j + bh * w, i * w + j + bh * w + bw),
                      Num(bw * bh * 255)))

IsTriviallyExcluded(density, sobelTable, i, j, w, bw, bh) ==
    LET wbA == i * w + j
        wbB == wbA + bw
        wbD == wbA + bh * w
        wbC == wbD + bw
        blockEdgesDensity ==
            NDiv(FourCorners(sobelTable, wbA, wbB, wbD, wbC), Num(bw * bh * 255))
    IN  NLt(blockEdgesDensity, density)

\* a < t * sqrt(v) for v > 0, decided on squares
LtTimesSqrt(x, t, v) ==
  With(x, LAMBDA a :
    IF IsNaN(a) \/ IsNaN(t) THEN FALSE
    ELSE IF ~IsFinite(v) THEN NLt(a, NMul(t, v))
    ELSE IF ~IsFinite(t) THEN NLt(a, t)
    ELSE IF ~IsFinite(a) THEN a[1] < 0
    ELSE IF t[1] >= 0
         THEN a[1] < 0 \/ NLt(NSquare(a), NMul(NSquare(t), v))
         ELSE a[1] < 0 /\ NLt(NMul(NSquare(t), v), NSquare(a)))

\* rectsSum * inverseArea < nodeThreshold * standardDeviation, where
\* standardDeviation is Math.sqrt(variance) if variance > 0 and 1 otherwise
NodeBelow(rectsSum, inverseArea, nodeThreshold, variance) ==
    IF NPositive(variance)
    THEN LtTimesSqrt(NMul(rectsSum, inverseArea), nodeThreshold, variance)
    ELSE NLt(NMul(rectsSum, inverseArea), nodeThreshold)

\* (base + data[w] * scale + 0.5) | 0
Scaled(c, base, w) ==
    ToInt32(NAdd(NAdd(Num(base), NMul(DataRead(c.data, w), c.scale)), Half))

\* w1, w2, w3, w4: the indices at which the table is read for the rectangle
\* (rectLeft, rectTop, rectWidth, rectHeight)
RectCellsAt(c, rectLeft, rectTop, rectWidth, rectHeight, tilted) ==
    IF tilted
    THEN <<rectLeft - rectHeight + rectWidth
              + (rectTop + rectWidth + rectHeight - 1) * c.width,
           rectLeft + (rectTop - 1) * c.width,
           rectLeft - rectHeight + (rectTop + rectHeight - 1) * c.width,
           rectLeft + rectWidth + (rectTop + rectWidth - 1) * c.width>>
    ELSE <<rectTop * c.width + rectLeft,
           rectTop * c.width + rectLeft + rectWidth,
           rectTop * c.width + rectLeft + rectHeight * c.width,
           rectTop * c.width + rectLeft + rectHeight * c.width + rectWidth>>

\* the sum of the rectangle (rectLeft, rectTop, rectWidth, rectHeight)
RectSumAt(c, rectLeft, rectTop, rectWidth, rectHeight, tilted) ==
    With(RectCellsAt(c, rectLeft, rectTop, rectWidth, rectHeight, tilted),
         LAMBDA cells :
            IF tilted
            THEN NSub(NSub(NAdd(TableRead(c.tiltedIntegralImage, cells[1]),
                                TableRead(c.tiltedIntegralImage, cells[2])),
                           TableRead(c.tiltedIntegralImage, cells[3])),
                      TableRead(c.tiltedIntegralImage, cells[4]))
            ELSE FourCorners(c.integralImage, cells[1], cells[2], cells[3], cells[4]))

\* the rectangle sum of the rectangle record at data[w .. w+3]
RectSum(c, w, tilted) ==
    [rectLeft \in Int, rectTop \in Int, rectWidth \in Int, rectHeight \in Int |->
        RectSumAt(c, rectLeft, rectTop, rectWidth, rectHeight, tilted)
    ][Scaled(c, c.j, w), Scaled(c, c.i, w + 1), Scaled(c, 0, w + 2), Scaled(c, 0, w + 3)]

\* the indices at which the table is read for the rectangle record at
\* data[w .. w+3]
RectCells(c, w, tilted) ==
    RectCellsAt(c, Scaled(c, c.j, w), Scaled(c, c.i, w + 1), Scaled(c, 0, w + 2),
                Scaled(c, 0, w + 3), tilted)

\* history of one evalStages_ call: reads is the list of the indices of
\* data read so far, in the order of the reads, adds the list of the
\* additions to a stage sum so far, cells the set of the indices at which
\* the upright (FALSE) and the tilted (TRUE) table have been read for a
\* rectangle sum
NoLog == [reads |-> <<>>, adds |-> <<>>, cells |-> {}]

\* the table is read at the four indices of cells
TableReads(log, tilted, cells) ==
    [log EXCEPT !.cells = @ \cup {<<tilted, cells[k]>> : k \in 1 .. 4}]

\* data[w++], once for each index of ws
Read(log, ws) == [log EXCEPT !.reads = @ \o ws]

\* stageSum += value by the node whose nodeThreshold is data[at]; stageSum is
\* the sum before
Added(log, at, rectsSum, stageSum, value) ==
    [log EXCEPT !.adds = Append(@, [at |-> at, rectsSum |-> rectsSum,
                                    before |-> stageSum, value |-> value,
                                    after |-> NAdd(stageSum, value)])]

\* for (r = 0; r < rectsLength; r++): the cursor and rectsSum afterwards
RECURSIVE EvalRects(_, _, _, _, _, _, _)
EvalRects(c, w, r, rectsLength, tilted, rectsSum, log) ==
    IF ~NLt(Num(r), rectsLength) THEN [w |-> w, rectsSum |-> rectsSum, log |-> log]
    ELSE EvalRects(c, w + 5, r + 1, rectsLength, tilted,
                   NAdd(rectsSum, NMul(RectSum(c, w, tilted), DataRead(c.data, w + 4))),
                   TableReads(Read(log, <<w, w + 1, w + 2, w + 3, w + 4>>),
                              tilted, RectCells(c, w, tilted)))

\* while (nodeLength--): the cursor and stageSum afterwards; the node
\* counts of the cascades of the model are naturals or, read beyond the
\* end, undefined.  EvalNodes reads tilted and rectsLength and runs the
\* rectangle loop, NodeAfterRects is the rest of the body, rs the state
\* the rectangle loop left.
RECURSIVE EvalNodes(_, _, _, _, _)
RECURSIVE NodeAfterRects(_, _, _, _)
\* a slip of the cursor: nodeLeft read as data[w], without the step
MutNodeLeftNotStepped(c, rs, nodeLength, stageSum) ==
    With(DataRead(c.data, rs.w + 1),
         LAMBDA value :
            EvalNodes(c, rs.w + 2, NSub(nodeLength, Num(1)), NAdd(stageSum, value),
                      Added(Read(rs.log, <<rs.w, rs.w + 1, rs.w + 1>>),
                            rs.w, rs.rectsSum, stageSum, value)))

\* a slip of the node test: nodeLeft and nodeRight the wrong way round
MutNodeSidesSwapped(c, rs, nodeLength, stageSum) ==
    With(IF NodeBelow(rs.rectsSum, c.inverseArea, DataRead(c.data, rs.w), c.variance)
         THEN DataRead(c.data, rs.w + 2)
         ELSE DataRead(c.data, rs.w + 1),
         LAMBDA value :
            EvalNodes(c, rs.w + 3, NSub(nodeLength, Num(1)), NAdd(stageSum, value),
                      Added(Read(rs.log, <<rs.w, rs.w + 1, rs.w + 2>>),
                            rs.w, rs.rectsSum, stageSum, value)))

NodeAfterRects(c, rs, nodeLength, stageSum) ==
    With(IF NodeBelow(rs.rectsSum, c.inverseArea, DataRead(c.data, rs.w), c.variance)
         THEN DataRead(c.data, rs.w + 1)
         ELSE DataRead(c.data, rs.w + 2),
         LAMBDA value :
            EvalNodes(c, rs.w + 3, NSub(nodeLength, Num(1)), NAdd(stageSum, value),
                      Added(Read(rs.log, <<rs.w, rs.w + 1, rs.w + 2>>),
                            rs.w, rs.rectsSum, stageSum, value)))

EvalNodes(c, w, nodeLength, stageSum, log) ==
    IF ~Truthy(nodeLength) THEN [w |-> w, stageSum |-> stageSum, log |-> log]
    ELSE With(EvalRects(c, w + 2, 0, DataRead(c.data, w + 1),
                        Truthy(DataRead(c.data, w)), Num(0), Read(log, <<w, w + 1>>)),
              LAMBDA rs : NodeAfterRects(c, rs, nodeLength, stageSum))

\* a slip of the stage test: the comparison turned round
MutStageRejectsAbove(stageSum, stageThreshold) == NLt(stageThreshold, stageSum)

\* stageSum < stageThreshold
StageRejects(stageSum, stageThreshold) == NLt(stageSum, stageThreshold)

\* for (w = 2; w < length; ): whether every stage passed, and the cursor at
\* the return.  EvalStageLoop reads stageThreshold and nodeLength and runs
\* the node loop, StageAfterNodes is the test that ends the body, ns the
\* state the node loop left.
RECURSIVE EvalStageLoop(_, _, _)
RECURSIVE StageAfterNodes(_, _, _)
\* a slip of the stage test: a stage that fails is remembered and the later
\* stages are evaluated all the same
MutStageFailureDeferred(c, stageThreshold, ns) ==
    IF StageRejects(ns.stageSum, stageThreshold)
    THEN With(EvalStageLoop(c, ns.w, ns.log),
              LAMBDA ev : [accept |-> FALSE, cursor |-> ev.cursor, log |-> ev.log])
    ELSE EvalStageLoop(c, ns.w, ns.log)

StageAfterNodes(c, stageThreshold, ns) ==
    IF StageRejects(ns.stageSum, stageThreshold)
    THEN [accept |-> FALSE, cursor |-> ns.w, log |-> ns.log]
    ELSE EvalStageLoop(c, ns.w, ns.log)

EvalStageLoop(c, w, log) ==
    IF w >= ArrayLen(c.data) THEN [accept |-> TRUE, cursor |-> w, log |-> log]
    ELSE With(EvalNodes(c, w + 2, DataRead(c.data, w + 1), Num(0), Read(log, <<w, w + 1>>)),
              LAMBDA ns : StageAfterNodes(c, DataRead(c.data, w), ns))

\* the mean and the variance of the block, as evalStages_ computes them
BlockMean(ii, wbA, bw, bh, w, inverseArea) ==
    NMul(FourCorners(ii, wbA, wbA + bw, wbA + bh * w, wbA + bh * w + bw), inverseArea)

BlockVariance(ii, iis, wbA, bw, bh, w, inverseArea) ==
    NSub(NMul(FourCorners(iis, wbA, wbA + bw, wbA + bh * w, wbA + bh * w + bw),
              inverseArea),
         NSquare(BlockMean(ii, wbA, bw, bh, w, inverseArea)))

\* the arguments of evalStages_ and what it computes before the stage loop
EvalContext(d, ii, iis, tii, i, j, w, bw, bh, s) ==
    [data |-> d, integralImage |-> ii, tiltedIntegralImage |-> tii,
     i |-> i, j |-> j, width |-> w, scale |-> s,
     inverseArea |-> NDiv(Num(1), Num(bw * bh)),
     variance |-> BlockVariance(ii, iis, i * w + j, bw, bh, w,
                                NDiv(Num(1), Num(bw * bh)))]

EvalStages(d, ii, iis, tii, i, j, w, bw, bh, s) ==
    With(EvalContext(d, ii, iis, tii, i, j, w, bw, bh, s),
         LAMBDA c : EvalStageLoop(c, 2, NoLog))

(***************************************************************************)
(* ViolaJones.detect                                                       *)
(***************************************************************************)
Flat(s) == [k \in 0 .. Len(s) - 1 |-> s[k + 1]]

\* [minWidth, minHeight, (stageThreshold, nodeCount, (tilted, rectCount,
\*  (x, y, w, h, weight)*, nodeThreshold, leftValue, rightValue)*)*]
\* one stage, one node, every window passes
CascadePass == Flat(<<1, 1,   0, 1,   0, 1, 0, 0, 1, 1, 1,   0, 1, 1>>)
\* one stage of an upright and a tilted node, passed or not with the image
CascadeImage == Flat(<<1, 1,   1, 2,   0, 1, 0, 0, 1, 1, 1,   1, 0, 1,
                                        1, 1, 0, 0, 1, 1, 1,   1, 0, 1>>)
\* a first stage no sum can pass (1 or 2 against 3), a second whose sum
\* is its threshold, 1, whichever way its node goes
CascadeUnreachable == Flat(<<1, 1,   3, 1,   0, 1, 0, 0, 1, 1, 1,   1, 1, 2,
                                      1, 1,   0, 1, 0, 0, 1, 1, 1,   0, 1, 1>>)
\* CascadePass cut short: the node's leftValue and rightValue are missing
CascadeTruncated == Flat(<<1, 1,   0, 1,   0, 1, 0, 0, 1, 1, 1,   0>>)
\* a 2x1 base window and one stage without nodes
CascadeWide == Flat(<<2, 1,   0, 0>>)

Cascades == {CascadePass, CascadeImage, CascadeUnreachable, CascadeTruncated, CascadeWide}

MaxDim == 3
Dims == 1 .. MaxDim
InitialScales == {<<1, 4>>, <<1, 1>>}
ScaleFactors == {<<1, 1>>, <<5, 4>>, <<2, 1>>}
StepSizes == {<<1, 1>>, <<3, 2>>}
EdgesDensities == {<<0, 1>>, <<1, 4>>, <<3, 4>>}

\* gray values and Sobel magnitudes of the n pixels of an image
Images(n) ==
    {[gray |-> [k \in 0 .. n - 1 |-> 1], sobel |-> [k \in 0 .. n - 1 |-> 255 * (k % 2)]],
     [gray |-> [k \in 0 .. n - 1 |-> IF k = 0 THEN 3 ELSE 0],
      sobel |-> [k \in 0 .. n - 1 |-> 255]],
     [gray |-> [k \in 0 .. n - 1 |-> IF k = n - 1 THEN 3 ELSE 0],
      sobel |-> [k \in 0 .. n - 1 |-> 255]]}

\* lines 61-64 and 73: the edge table is allocated and filled only when
\* edgesDensity > 0
SobelTable ==
    IF NPositive(edgesDensity) THEN IntegralImage(pixels.sobel, width, height)
    ELSE <<>>

\* the raw list holds at most this many rectangles; a scan that would append
\* more runs out of memory
MaxRaw == 2 * MaxDim * MaxDim

NoWindow == [evalCalled |-> FALSE, pruneCalled |-> FALSE]

\* the parameters of ObjectTracker unless changed: 1.0, 1.25, 1.5
DefaultParameters ==
    initialScale = <<1, 1>> /\ scaleFactor = <<5, 4>> /\ stepSize = <<3, 2>>

\* lines 55-80: the tables are built, scale and the block are initialized
DetectInit ==
    /\ phase = "scale"
    /\ width \in Dims /\ height \in Dims
    /\ initialScale \in InitialScales
    /\ scaleFactor \in ScaleFactors
    /\ stepSize \in StepSizes
    /\ edgesDensity \in EdgesDensities
    /\ data \in Cascades
    /\ pixels \in Images(width * height)
    /\ integralImage = IntegralImage(pixels.gray, width, height)
    /\ integralImageSquare = IntegralImageSquare(pixels.gray, width, height)
    /\ tiltedIntegralImage = TiltedIntegralImage(pixels.gray, width, height)
    /\ integralImageSobel = SobelTable
    /\ scale = NMul(initialScale, scaleFactor)
    /\ blockWidth = ToInt32(NMul(scale, DataRead(data, 0)))
    /\ blockHeight = ToInt32(NMul(scale, DataRead(data, 1)))
    /\ step = 0 /\ scanI = 0 /\ scanJ = 0
    /\ lastWindow = NoWindow
    /\ visited = {} /\ revisited = FALSE /\ returned = <<>>
    /\ NoMath /\ NoElse
    /\ rects = <<>>
    /\ parent = <<>> /\ unions = {}
    /\ map = <<>> /\ result = <<>>
    /\ unionCalls = {} /\ tested = {}

\* while (blockWidth < width && blockHeight < height): the body is entered
ScaleEnter ==
    /\ phase = "scale"
    /\ blockWidth < width /\ blockHeight < height
    /\ step' = ToInt32(NAdd(NMul(scale, stepSize), Half))
    /\ scanI' = 0
    /\ phase' = "row"
    /\ UNCHANGED <<inputVars, callVars, mathVars, elseVars, scale, blockWidth, blockHeight, scanJ, lastWindow,
                   parent, unions, mergeVars>>

\* the while loop ends: return this.mergeRectangles_(rects)
ScaleExit ==
    /\ phase = "scale"
    /\ ~(blockWidth < width /\ blockHeight < height)
    /\ parent' = DisjointSetNew(ArrayLen(rects))
    /\ phase' = "pairs"
    /\ UNCHANGED <<inputVars, callVars, mathVars, elseVars, scanVars, unions, mergeVars>>

\* i < height - blockHeight
RowsLeft == scanI < height - blockHeight

\* a slip of the bound: <= for <
MutColumnsLeftInclusive == scanJ <= width - blockWidth

\* j < width - blockWidth
ColumnsLeft == scanJ < width - blockWidth

\* for (i = 0; i < height - blockHeight; i += step): the body is entered
RowEnter ==
    /\ phase = "row"
    /\ RowsLeft
    /\ scanJ' = 0
    /\ phase' = "col"
    /\ UNCHANGED <<inputVars, callVars, mathVars, elseVars, scale, blockWidth, blockHeight, step, scanI, lastWindow,
                   parent, unions, mergeVars>>

\* the row loop ends: scale *= scaleFactor, the block is recomputed
RowExit ==
    /\ phase = "row"
    /\ ~RowsLeft
    /\ scale' = NMul(scale, scaleFactor)
    /\ blockWidth' = ToInt32(NMul(scale', DataRead(data, 0)))
    /\ blockHeight' = ToInt32(NMul(scale', DataRead(data, 1)))
    /\ phase' = "scale"
    /\ UNCHANGED <<inputVars, callVars, mathVars, elseVars, step, scanI, scanJ, lastWindow, parent, unions, mergeVars>>

\* what was done with the window at (scanI, scanJ); ev is what evalStages_
\* returned, if it was called
WindowRecord(pruneCalled, pruned, ev) ==
    [i |-> scanI, j |-> scanJ, blockWidth |-> blockWidth, blockHeight |-> blockHeight,
     scale |-> scale,
     pruneCalled |-> pruneCalled, pruned |-> pruned,
     evalCalled |-> ~pruned,
     accept |-> ev.accept,
     cursor |-> ev.cursor,
     reads |-> ev.log.reads,
     adds |-> ev.log.adds,
     cells |-> ev.log.cells]

\* a slip of the guard: the test of edgesDensity forgotten
MutPruneAlways == TRUE

\* edgesDensity > 0 && integralImageSobel
PruneCalled == NPositive(edgesDensity) /\ ArrayLen(integralImageSobel) > 0

Pruned ==
    PruneCalled /\ IsTriviallyExcluded(edgesDensity, integralImageSobel,
                                       scanI, scanJ, width, blockWidth, blockHeight)

\* the window at (scanI, scanJ): pruned, or evaluated
Window ==
    IF Pruned THEN WindowRecord(TRUE, TRUE, [accept |-> FALSE, cursor |-> 2, log |-> NoLog])
    ELSE With(EvalStages(data, integralImage, integralImageSquare,
                         tiltedIntegralImage, scanI, scanJ, width,
                         blockWidth, blockHeight, scale),
              LAMBDA ev : WindowRecord(PruneCalled, FALSE, ev))

\* the window win is appended if accepted, and j += step
Scanned(win) ==
    /\ lastWindow' = win
    /\ visited' = visited \cup {<<scale, scanI, scanJ>>}
    /\ revisited' = (revisited \/ <<scale, scanI, scanJ>> \in visited)
    /\ IF win.accept /\ ArrayLen(rects) >= MaxRaw
       THEN phase' = "exhausted" /\ UNCHANGED <<rects, scanJ>>
       ELSE /\ rects' = IF win.accept
                        THEN [k \in 0 .. ArrayLen(rects) |->
                                 IF k < ArrayLen(rects) THEN rects[k]
                                 ELSE Rect(scanJ, scanI, blockWidth, blockHeight)]
                        ELSE rects
            /\ scanJ' = scanJ + step
            /\ UNCHANGED phase

\* a slip of the cursor: data[w]++ for data[w++] where the first stage
\* threshold is read
MutThresholdStepped ==
    /\ data' = [k \in DOMAIN data |-> IF k = 2 THEN data[k] + 1 ELSE data[k]]
    /\ UNCHANGED <<pixels, tableVars>>

\* what isTriviallyExcluded and evalStages_ store into the arrays they are
\* handed: every access of theirs is a read
WindowStores == UNCHANGED arrayVars

\* for (j = 0; j < width - blockWidth; j += step): one pass of the body
ScanWindow ==
    /\ phase = "col"
    /\ ColumnsLeft
    /\ \E win \in {Window} : Scanned(win)
    /\ WindowStores
    /\ UNCHANGED <<paramVars, returned, mathVars, elseVars, scale, blockWidth, blockHeight, step, scanI,
                   parent, unions, map, result, unionCalls, tested>>

\* the column loop ends: i += step
ColExit ==
    /\ phase = "col"
    /\ ~ColumnsLeft
    /\ scanI' = scanI + step
    /\ phase' = "row"
    /\ UNCHANGED <<inputVars, callVars, mathVars, elseVars, scale, blockWidth, blockHeight, step, scanJ, lastWindow,
                   parent, unions, mergeVars>>

DetectNext ==
    \/ ScaleEnter \/ ScaleExit \/ RowEnter \/ RowExit \/ ScanWindow \/ ColExit
    \/ MergeNext

SpecDetect == DetectInit /\ [][DetectNext]_vars

\* the steps of one call are taken as long as there is one to take
SpecDetectFair == SpecDetect /\ WF_vars(DetectNext)

\* detect is called again with the same arguments once it has returned:
\* lines 60-80 run again, the list, the scale and the block are new; what
\* the earlier call left in the other variables is still there; the tables
\* are built again from the pixel buffer
DetectAgain ==
    /\ phase = "merged"
    /\ Len(returned) + 1 < MaxCalls
    /\ returned' = Append(returned, result)
    /\ rects' = <<>>
    /\ scale' = NMul(initialScale, scaleFactor)
    /\ blockWidth' = ToInt32(NMul(scale', DataRead(data, 0)))
    /\ blockHeight' = ToInt32(NMul(scale', DataRead(data, 1)))
    /\ lastWindow' = NoWindow
    /\ visited' = {} /\ revisited' = FALSE
    /\ phase' = "scale"
    /\ integralImage' = IntegralImage(pixels.gray, width, height)
    /\ integralImageSquare' = IntegralImageSquare(pixels.gray, width, height)
    /\ tiltedIntegralImage' = TiltedIntegralImage(pixels.gray, width, height)
    /\ integralImageSobel' = SobelTable
    /\ UNCHANGED <<paramVars, data, pixels, mathVars, elseVars, step, scanI, scanJ, parent, unions,
                   map, result, unionCalls, tested>>

\* calls from the initial scale 1 on, with a scale factor above 1
DetectCallsInit ==
    /\ DetectInit
    /\ initialScale = <<1, 1>>
    /\ NLt(Num(1), scaleFactor)

DetectCallsNext == DetectNext \/ DetectAgain

SpecDetectCalls == DetectCallsInit /\ [][DetectCallsNext]_vars

(***************************************************************************)
(* TrackerTask                                                             *)
(***************************************************************************)
MaxTrackers == 2
MaxEvents == 5

Trackers == 1 .. MaxTrackers

\* the variables of the detector, the merger, the disjoint set and
\* intersectRect
detectorVars ==
    <<parent, unions, mergeVars, inputVars, scanVars, callVars, mathVars, findVars>>

\* the fields of the task and the listener lists of the trackers
TaskState ==
    [running_ |-> running_, tracker_ |-> tracker_,
     reemitTrackEvent_ |-> reemitTrackEvent_,
     listeners |-> listeners, emitted |-> emitted]

\* (event) => { this.emit("track", event) }: a closure that is none of
\* those made before; closures are numbered as they are made, and
\* reemitTrackEvent_ is the last one made
NewClosure(s) == 1 + s.reemitTrackEvent_

\* this.emit(event)
Emit(s, event) == [s EXCEPT !.emitted = Append(@, event)]

\* this.tracker_.on("track", this.reemitTrackEvent_)
On(s) == [s EXCEPT !.listeners[s.tracker_] = @ \cup {s.reemitTrackEvent_}]

\* if (this.reemitTrackEvent_)
\*     this.tracker_.removeListener("track", this.reemitTrackEvent_)
RemoveListener(s) ==
    IF s.reemitTrackEvent_ # 0
    THEN [s EXCEPT !.listeners[s.tracker_] = @ \ {s.reemitTrackEvent_}]
    ELSE s

\* run() and stop(); with nested > 0 a listener of the event emitted calls
\* the other of the two while the event is being emitted
RECURSIVE TaskRun(_, _)
RECURSIVE TaskStop(_, _)
\* a slip of run: the test of inRunning() left out
MutRunUnguarded(s, nested) ==
    With(Emit(On([s EXCEPT !.running_ = TRUE,
                           !.reemitTrackEvent_ = NewClosure(s)]), "run"),
         LAMBDA ran : IF nested > 0 THEN TaskStop(ran, nested - 1) ELSE ran)

TaskRun(s, nested) ==
    IF s.running_ THEN s
    ELSE With(Emit(On([s EXCEPT !.running_ = TRUE,
                                !.reemitTrackEvent_ = NewClosure(s)]), "run"),
              LAMBDA ran : IF nested > 0 THEN TaskStop(ran, nested - 1) ELSE ran)

TaskStop(s, nested) ==
    IF ~s.running_ THEN s
    ELSE With(Emit([s EXCEPT !.running_ = FALSE], "stop"),
              LAMBDA stopped :
                 RemoveListener(IF nested > 0 THEN TaskRun(stopped, nested - 1)
                                ELSE stopped))

\* new TrackerTask(tracker): no listener is registered on any tracker
TaskInit ==
    /\ phase = "task"
    /\ tracker_ \in Trackers
    /\ running_ = FALSE
    /\ reemitTrackEvent_ = 0
    /\ listeners = [t \in Trackers |-> {}]
    /\ emitted = <<>>
    /\ taskCall = NoCall
    /\ parent = <<>> /\ unions = {}
    /\ rects = <<>> /\ map = <<>> /\ result = <<>>
    /\ unionCalls = {} /\ tested = {}
    /\ NoDetect /\ NoMath /\ lastFind = NoFind /\ NoObject

\* the task becomes what the call made of it
Becomes(s) ==
    /\ Len(s.emitted) <= MaxEvents
    /\ running_' = s.running_
    /\ tracker_' = s.tracker_
    /\ reemitTrackEvent_' = s.reemitTrackEvent_
    /\ listeners' = s.listeners
    /\ emitted' = s.emitted

Run ==
    /\ phase = "task"
    /\ \E nested \in 0 .. 1 :
          /\ Becomes(TaskRun(TaskState, nested))
          /\ taskCall' = [op |-> "run", nested |-> nested, before |-> TaskState]
    /\ UNCHANGED <<phase, detectorVars, objectVars>>

Stop ==
    /\ phase = "task"
    /\ \E nested \in 0 .. 1 :
          /\ Becomes(TaskStop(TaskState, nested))
          /\ taskCall' = [op |-> "stop", nested |-> nested, before |-> TaskState]
    /\ UNCHANGED <<phase, detectorVars, objectVars>>

\* setTracker(tracker)
SetTracker ==
    /\ phase = "task"
    /\ \E tracker \in Trackers :
          /\ tracker_' = tracker
          /\ taskCall' = [op |-> "setTracker", nested |-> 0, before |-> TaskState]
    /\ UNCHANGED <<phase, running_, reemitTrackEvent_, listeners, emitted,
                   detectorVars, objectVars>>

\* a tracker emits 'track': each listener registered on it is called, and
\* each closure of the task re-emits the event on the task
TrackerEmits ==
    /\ phase = "task"
    /\ \E tracker \in Trackers :
          /\ Len(emitted) + Cardinality(listeners[tracker]) <= MaxEvents
          /\ emitted' = emitted \o [k \in 1 .. Cardinality(listeners[tracker]) |-> "track"]
          /\ taskCall' = [op |-> "track", nested |-> 0, before |-> TaskState,
                          tracker |-> tracker]
    /\ UNCHANGED <<phase, running_, tracker_, reemitTrackEvent_, listeners,
                   detectorVars, objectVars>>

TaskNext == Run \/ Stop \/ SetTracker \/ TrackerEmits

SpecTask == TaskInit /\ [][TaskNext]_vars

(***************************************************************************)
(* ObjectTracker                                                           *)
(***************************************************************************)
MaxNames == 3
MaxTracks == 2

\* the names the constructor is given: two keys of ViolaJones.classifiers,
\* a name that is no property of it, and a name it inherits from
\* Object.prototype
Names == {"face", "eye", "bogus", "toString"}

\* the cascades of ViolaJones.classifiers that the names above select
NamedCascades == {"face", "eye"}

\* ViolaJones.classifiers[classifier]: a cascade, undefined, or the
\* inherited function
Lookup(classifier) ==
    CASE classifier \in NamedCascades -> classifier
      [] classifier = "toString" -> "function"
      [] OTHER -> "undefined"

\* classifiers.indexOf(classifier): the first place of the name
IndexOf(names, classifier) ==
    CHOOSE i \in 1 .. Len(names) :
        /\ names[i] = classifier
        /\ \A k \in 1 .. i - 1 : names[k] # classifier

\* newClassifiers[i] = value: the places between the end of the array and i
\* stay empty, and read as undefined
ArraySet(array, i, value) ==
    [k \in 1 .. Max(Len(array), i) |->
        IF k = i THEN value ELSE IF k <= Len(array) THEN array[k] ELSE "undefined"]

\* the loop of the constructor over the names, from the k-th
RECURSIVE ConstructLoop(_, _, _)
ConstructLoop(names, k, newClassifiers) ==
    IF k > Len(names) THEN [threw |-> FALSE, newClassifiers |-> newClassifiers]
    ELSE With(ArraySet(newClassifiers, IndexOf(names, names[k]),
                       Lookup(names[k])),
              LAMBDA assigned :
                 IF assigned[IndexOf(names, names[k])] = "undefined"
                 THEN [threw |-> TRUE, newClassifiers |-> assigned]
                 ELSE ConstructLoop(names, k + 1, assigned))

\* what the constructor is given: nothing, a name, or an array of names; the
\* empty string is a name that tests false
OptClassifiers ==
    {[given |-> "nothing"]}
    \cup {[given |-> "string", name |-> n] : n \in Names \cup {""}}
    \cup {[given |-> "array", names |-> ns] :
            ns \in UNION {[1 .. n -> Names] : n \in 0 .. MaxNames}}

\* new ObjectTracker(optClassifiers): whether it throws, and the field
\* classifiers it leaves
Construct(opt) ==
    IF opt.given = "nothing" \/ (opt.given = "string" /\ opt.name = "")
    THEN [threw |-> FALSE, classifiers |-> [defined |-> FALSE]]
    ELSE With(ConstructLoop(IF opt.given = "string" THEN <<opt.name>> ELSE opt.names,
                            1, <<>>),
              LAMBDA loop :
                 IF loop.threw
                 THEN [threw |-> TRUE, classifiers |-> [defined |-> FALSE]]
                 ELSE [threw |-> FALSE,
                       classifiers |-> [defined |-> TRUE, items |-> loop.newClassifiers]])

\* what ViolaJones.detect returns for a cascade on a frame
DetectResults == {<<>>, <<1>>, <<2>>}

\* ViolaJones.detect(pixels, ..., classifier) of the tracker with its
\* default parameters: a cascade gives the rectangles found; undefined
\* makes data[0] throw a TypeError; of the function data[0], data[1] and
\* data.length are undefined and 0, the block is (scale * undefined) | 0 = 0
\* at every scale and the loop over the scales does not end
DetectOutcome(classifier) ==
    CASE classifier \in NamedCascades -> "returned"
      [] classifier = "undefined" -> "threw"
      [] OTHER -> "noreturn"

\* the loop of track over the classifiers, from the k-th
RECURSIVE TrackLoop(_, _, _, _)
TrackLoop(items, k, results, found) ==
    IF k > Len(items) THEN [outcome |-> "returned", results |-> results]
    ELSE IF DetectOutcome(items[k]) # "returned"
         THEN [outcome |-> DetectOutcome(items[k]), results |-> results]
         ELSE TrackLoop(items, k + 1, results \o found[items[k]], found)

\* the state after new ObjectTracker(optClassifiers)
ObjectInit ==
    /\ phase = "object"
    /\ \E opt \in OptClassifiers :
          /\ classifiers = Construct(opt).classifiers
          /\ objectCall = [op |-> "new", opt |-> opt,
                           outcome |-> IF Construct(opt).threw THEN "threw"
                                       ELSE "returned"]
    /\ tracked = <<>>
    /\ parent = <<>> /\ unions = {}
    /\ rects = <<>> /\ map = <<>> /\ result = <<>>
    /\ unionCalls = {} /\ tested = {}
    /\ NoDetect /\ NoMath /\ lastFind = NoFind /\ NoTask

\* there is a tracker, and the call before has ended
CanCall ==
    /\ phase = "object"
    /\ objectCall.outcome # "noreturn"
    /\ ~(objectCall.op = "new" /\ objectCall.outcome = "threw")

\* track(pixels, width, height); found is what detect returns for each
\* cascade on these pixels
Track ==
    /\ CanCall
    /\ Len(tracked) < MaxTracks
    /\ \E found \in [NamedCascades -> DetectResults] :
          IF ~classifiers.defined
          THEN /\ objectCall' = [op |-> "track", outcome |-> "threw", found |-> found,
                                 classifiers |-> classifiers, tracked |-> tracked]
               /\ UNCHANGED tracked
          ELSE \E loop \in {TrackLoop(classifiers.items, 1, <<>>, found)} :
                 /\ objectCall' = [op |-> "track", outcome |-> loop.outcome,
                                   found |-> found, classifiers |-> classifiers,
                                   tracked |-> tracked]
                 /\ tracked' = IF loop.outcome = "returned"
                               THEN Append(tracked, loop.results) ELSE tracked
    /\ UNCHANGED <<phase, classifiers, detectorVars, taskVars>>

\* setClassifiers(classifiers), with an array of cascades
SetClassifiers ==
    /\ CanCall
    /\ \E n \in 0 .. 2 : \E items \in [1 .. n -> NamedCascades] :
          /\ classifiers' = [defined |-> TRUE, items |-> items]
          /\ objectCall' = [op |-> "setClassifiers", outcome |-> "returned"]
    /\ UNCHANGED <<phase, tracked, detectorVars, taskVars>>

ObjectNext == Track \/ SetClassifiers

SpecObjectTracker == ObjectInit /\ [][ObjectNext]_vars

(***************************************************************************)
(* C1: union-find correctness                                              *)
(***************************************************************************)
\* the elements linked to those of S by one recorded union pair
Neighbours(S) ==
    S \cup {y \in DOMAIN parent :
                \E x \in S : <<Min(x, y), Max(x, y)>> \in unions}

\* the class of i in the reflexive-symmetric-transitive closure of unions
RECURSIVE Closure(_)
Closure(S) == IF Neighbours(S) = S THEN S ELSE Closure(Neighbours(S))
Linked(i, j) == j \in Closure({i})

\* C1: after any sequence of union and find calls, find(i) = find(j) exactly
\* when i and j are connected in the reflexive-symmetric-transitive closure
\* of the pairs union was called with.
C1_UnionFindCorrect ==
    phase = "ds" =>
        \A i, j \in DOMAIN parent :
            (FindRep(parent, i) = FindRep(parent, j)) <=> Linked(i, j)

\* two elements never united directly are in one set through a third, by a
\* chain of two parent pointers that no find has compressed yet
C1_Witness ==
    /\ phase = "ds"
    /\ \E i, j \in DOMAIN parent :
          /\ i < j
          /\ <<i, j>> \notin unions
          /\ FindRep(parent, i) = FindRep(parent, j)
          /\ parent[i] # FindRep(parent, i)
          /\ parent[parent[i]] # parent[i]

(***************************************************************************)
(* C5..C9: the rectangle merger                                            *)
(***************************************************************************)
PairsDone == phase \in {"group", "emit", "merged"}
RectIdx == DOMAIN rects

\* the overlap condition in the words of the claim, on exact fractions:
\* the boxes are not strictly apart on either axis, the areas are not zero
\* (a ratio over a zero area is none), and with overlap the area of the
\* intersection box
\*    overlap / (area1 * (area1 / area2)) >= 1/2, overlap * area2 * 2 >= area1^2
\*    overlap / (area2 * (area1 / area2)) >= 1/2, overlap * 2 >= area1
StrictlyApart(r1, r2) ==
    \/ r1.x + r1.width < r2.x \/ r2.x + r2.width < r1.x
    \/ r1.y + r1.height < r2.y \/ r2.y + r2.height < r1.y

IntersectionArea(r1, r2) ==
    (Min(r1.x + r1.width, r2.x + r2.width) - Max(r1.x, r2.x))
        * (Min(r1.y + r1.height, r2.y + r2.height) - Max(r1.y, r2.y))

ClaimedUnion(r1, r2) ==
    LET overlap == IntersectionArea(r1, r2)
        area1 == r1.width * r1.height
        area2 == r2.width * r2.height
    IN  /\ ~StrictlyApart(r1, r2)
        /\ area1 > 0 /\ area2 > 0
        /\ 2 * overlap * area2 >= area1 * area1
        /\ 2 * overlap >= area1

\* C5: once the two loops are over, every ordered pair (i, j), i = j and both
\* directions included, has been tested, and union(i, j) has been called for
\* exactly the pairs whose boxes intersect and whose two ratios
\* overlap/(area1*(area1/area2)) and overlap/(area2*(area1/area2)) are >= 0.5.
C5_UnionExactlyOnOverlap ==
    PairsDone =>
        /\ tested = RectIdx \X RectIdx
        /\ unionCalls = {p \in RectIdx \X RectIdx :
                            ClaimedUnion(rects[p[1]], rects[p[2]])}

\* a pair united in one direction only, a pair that intersects and is not
\* united, and a pair on the diagonal
C5_Witness ==
    /\ PairsDone
    /\ \E i, j \in RectIdx :
          /\ i # j
          /\ <<i, j>> \in unionCalls /\ <<j, i>> \notin unionCalls
          /\ <<i, i>> \in unionCalls
    /\ \E i, j \in RectIdx :
          /\ ~StrictlyApart(rects[i], rects[j])
          /\ IntersectionArea(rects[i], rects[j]) > 0
          /\ <<i, j>> \notin unionCalls /\ <<j, i>> \notin unionCalls

Reps == {FindRep(parent, k) : k \in DOMAIN parent}
Members(rep) == {k \in DOMAIN parent : FindRep(parent, k) = rep}

RECURSIVE SumX(_)
SumX(S) == IF S = {} THEN 0
           ELSE LET k == CHOOSE k \in S : TRUE IN rects[k].x + SumX(S \ {k})
RECURSIVE SumY(_)
SumY(S) == IF S = {} THEN 0
           ELSE LET k == CHOOSE k \in S : TRUE IN rects[k].y + SumY(S \ {k})
RECURSIVE SumWidth(_)
SumWidth(S) == IF S = {} THEN 0
               ELSE LET k == CHOOSE k \in S : TRUE IN rects[k].width + SumWidth(S \ {k})
RECURSIVE SumHeight(_)
SumHeight(S) == IF S = {} THEN 0
                ELSE LET k == CHOOSE k \in S : TRUE IN rects[k].height + SumHeight(S \ {k})

\* r is an integer nearest to sum / count
Nearest(r, sum, count) == 2 * Abs(count * r - sum) <= count

\* out is the rectangle of the group of rep
GroupRect(out, rep) ==
    LET S == Members(rep)
        count == Cardinality(S)
    IN  /\ out.total = count
        /\ Nearest(out.x, SumX(S), count)
        /\ Nearest(out.y, SumY(S), count)
        /\ Nearest(out.width, SumWidth(S), count)
        /\ Nearest(out.height, SumHeight(S), count)

\* C6: the list returned holds exactly one rectangle for every group of raw
\* rectangles sharing a representative: its x, y, width and height are the
\* member sums divided by the member count, rounded to a nearest integer, and
\* its total is the member count.
C6_OneAveragedRectPerGroup ==
    phase = "merged" =>
        \E f \in [Reps -> 1 .. Len(result)] :
            /\ \A a, b \in Reps : f[a] = f[b] => a = b
            /\ \A i \in 1 .. Len(result) : \E a \in Reps : f[a] = i
            /\ \A a \in Reps : GroupRect(result[f[a]], a)

\* a group of three whose mean is no integer and no half, beside which the
\* rounding went up
C6_Witness ==
    /\ phase = "merged"
    /\ \E a \in Reps :
          /\ Cardinality(Members(a)) = 3
          /\ SumX(Members(a)) % 3 = 2
          /\ \E i \in 1 .. Len(result) :
                result[i].total = 3 /\ 3 * result[i].x > SumX(Members(a))

\* C7 as stated: the two rectangles of the example come back as one
\* rectangle with total 2 and x, y in {2, 3}.
C7_ScenarioBMergedAsStated ==
    (phase = "merged" /\ rects = ScenarioB) =>
        /\ Len(result) = 1
        /\ result[1].total = 2
        /\ result[1].x \in {2, 3}
        /\ result[1].y \in {2, 3}

\* C7, amended: the two rectangles of the example come back as two
\* rectangles, each with total 1 and the x, y, width and height of its input
\* (the overlap, 25, is a quarter of either area, 100).
C7_ScenarioBKeptApart ==
    (phase = "merged" /\ rects = ScenarioB) =>
        /\ Len(result) = 2
        /\ \A k \in 0 .. 1 :
              \E i \in 1 .. 2 : result[i] = [ScenarioB[k] EXCEPT !.total = 1]

C7_Witness == phase = "merged" /\ rects = ScenarioB

PairwiseApart == \A i, j \in RectIdx : i # j => StrictlyApart(rects[i], rects[j])

\* C8: for a list of raw rectangles whose boxes are pairwise strictly apart,
\* the list returned has one rectangle per input, each with total 1 and the
\* x, y, width and height of that input.
C8_ApartKeptApart ==
    (phase = "merged" /\ PairwiseApart) =>
        /\ Len(result) = ArrayLen(rects)
        /\ \A k \in RectIdx :
              \E i \in 1 .. Len(result) : result[i] = [rects[k] EXCEPT !.total = 1]

\* three rectangles, two of them apart on both axes at once
C8_Witness ==
    /\ phase = "merged" /\ PairwiseApart
    /\ ArrayLen(rects) = 3
    /\ \E i, j \in RectIdx :
          /\ rects[i].x + rects[i].width < rects[j].x
          /\ rects[i].y + rects[i].height < rects[j].y

(***************************************************************************)
(* C2..C4, C9, C10: the scanner and the stage evaluator                    *)
(***************************************************************************)
\* C2: every call of detect runs to completion, for every combination of
\* width, height, initialScale, scaleFactor and stepSize: the call reaches
\* the state in which mergeRectangles_ has returned.  A call whose raw list
\* outgrows MaxRaw is left undecided, so that only a call that loops for
\* ever within the bounds refutes the formula.
C2_DetectTerminates == <>(phase \in {"merged", "exhausted"})

\* C3: evalStages_ and isTriviallyExcluded are never invoked with
\* blockWidth * blockHeight = 0, and no raw rectangle with zero width or
\* height is ever appended.
C3_NoZeroAreaWindow ==
    /\ (lastWindow.pruneCalled \/ lastWindow.evalCalled) =>
            lastWindow.blockWidth * lastWindow.blockHeight # 0
    /\ \A k \in DOMAIN rects : rects[k].width # 0 /\ rects[k].height # 0

\* the cursor after the n nodes declared from w on; a count of rectangles
\* that lies outside the array ends the walk outside the array
RECURSIVE DeclaredNodesEnd(_, _, _)
DeclaredNodesEnd(d, w, n) ==
    IF n = 0 THEN w
    ELSE IF w + 1 \notin DOMAIN d THEN ArrayLen(d) + 1
    ELSE DeclaredNodesEnd(d, w + 2 + 5 * d[w + 1] + 3, n - 1)

\* the cursor after the stages declared from w on
RECURSIVE DeclaredEnd(_, _)
DeclaredEnd(d, w) ==
    IF w >= ArrayLen(d) THEN w
    ELSE IF w + 1 \notin DOMAIN d THEN ArrayLen(d) + 1
    ELSE DeclaredEnd(d, DeclaredNodesEnd(d, w + 2, d[w + 1]))

\* the declared counts agree with the length of the array
WellFormed(d) == ArrayLen(d) >= 2 /\ DeclaredEnd(d, 2) = ArrayLen(d)

\* C4: when the counts declared in the cascade disagree with its length,
\* detect does not return normally, no raw rectangle is collected, and no
\* evaluation reads a cascade element at an index >= data.length (the
\* largest index an evaluation reads is one below its final cursor).
C4_MalformedFailsFast ==
    ~WellFormed(data) =>
        /\ phase # "merged"
        /\ ArrayLen(rects) = 0
        /\ lastWindow.evalCalled => lastWindow.cursor - 1 < ArrayLen(data)

\* C9: mergeRectangles_ applied to an empty raw list raises no error and
\* returns an empty list; so does a detect call whose windows were all
\* rejected or pruned.
C9_EmptyInEmptyOut ==
    ArrayLen(rects) = 0 =>
        /\ phase # "threw"
        /\ phase = "merged" => result = <<>>

\* detect has returned, windows were looked at, and none was accepted
C9_Witness ==
    /\ phase = "merged"
    /\ ArrayLen(rects) = 0
    /\ lastWindow.evalCalled \/ lastWindow.pruneCalled
    /\ result = <<>>

\* the largest sum the n nodes declared from w on can add: at each node the
\* larger of leftValue and rightValue
RECURSIVE NodesFrom(_, _, _, _)
NodesFrom(d, w, n, sum) ==
    IF n = 0 THEN [w |-> w, sum |-> sum]
    ELSE LET after == w + 2 + 5 * d[w + 1]
         IN  NodesFrom(d, after + 3, n - 1, sum + Max(d[after + 1], d[after + 2]))

\* some stage declared from w on has a threshold above its largest sum
RECURSIVE UnreachableFrom(_, _)
UnreachableFrom(d, w) ==
    IF w >= ArrayLen(d) THEN FALSE
    ELSE LET ns == NodesFrom(d, w + 2, d[w + 1], 0)
         IN  d[w] > ns.sum \/ UnreachableFrom(d, ns.w)

HasUnreachableStage(d) == WellFormed(d) /\ UnreachableFrom(d, 2)

\* C10: with a cascade one of whose stages has a threshold greater than
\* every sum its nodes can produce, every evaluated window is rejected, no
\* raw rectangle is collected and detect returns an empty list, whatever
\* the image and the scan parameters.
C10_UnreachableStageRejectsAll ==
    HasUnreachableStage(data) =>
        /\ lastWindow.evalCalled => ~lastWindow.accept
        /\ ArrayLen(rects) = 0
        /\ phase = "merged" => result = <<>>

\* detect has returned for such a cascade, and windows were evaluated, one
\* of them of more than one pixel
C10_Witness ==
    /\ phase = "merged"
    /\ HasUnreachableStage(data)
    /\ lastWindow.evalCalled
    /\ lastWindow.blockWidth * lastWindow.blockHeight > 1
    /\ result = <<>>

(***************************************************************************)
(* C11: the merger run on its own output                                   *)
(***************************************************************************)
Geometry(r) == <<r.x, r.y, r.width, r.height>>
Geometries(list) == {Geometry(list[i]) : i \in DOMAIN list}

\* among the rectangles of list the overlap requirement is met by no two
\* rectangles that differ
OnlyIdenticalOverlap(list) ==
    \A i, j \in DOMAIN list :
        ClaimedUnion(list[i], list[j]) => Geometry(list[i]) = Geometry(list[j])

\* mergeRectangles_ applied to the list it returned
MergedAgain == MergeRectangles(Flat(result))

\* no two of the rectangles of list meet the overlap requirement
NoTwoOverlap(list) ==
    \A i, j \in DOMAIN list : i # j => ~ClaimedUnion(list[i], list[j])

\* C11: when the overlap requirement is met among the returned rectangles
\* only by identical ones, mergeRectangles_ applied to the returned list
\* returns the same rectangles (x, y, width, height), the total of each being
\* the number of the rectangles it stands for; when no two of them meet the
\* requirement, the list comes back rectangle by rectangle, each with total 1.
C11_MergeIdempotent ==
    (phase = "merged" /\ OnlyIdenticalOverlap(result)) =>
        \A again \in {MergedAgain} :
            /\ Geometries(again) = Geometries(result)
            /\ \A i \in DOMAIN again :
                  again[i].total =
                      Max(1, Cardinality({k \in DOMAIN result :
                                             ClaimedUnion(result[k], again[i])}))
            /\ NoTwoOverlap(result) =>
                  /\ Len(again) = Len(result)
                  /\ \A i \in DOMAIN result :
                        again[i] = [result[i] EXCEPT !.total = 1]

\* the first run merged two rectangles into one that is no square and
\* kept another apart; the second run returns both
C11_Witness ==
    /\ phase = "merged"
    /\ OnlyIdenticalOverlap(result)
    /\ Len(result) = 2
    /\ \E i \in DOMAIN result : result[i].total = 2 /\ result[i].width # result[i].height
    /\ Len(MergedAgain) = 2

(***************************************************************************)
(* C12: pruning is monotonic in edgesDensity                               *)
(***************************************************************************)
WindowSeen == lastWindow.pruneCalled \/ lastWindow.evalCalled

\* the last window reaches evalStages_ in the run that differs from this
\* one in edgesDensity only, which is d there; the edge table of that run
\* is the one of this run when both densities are positive
ReachesUnder(d) ==
    ~(NPositive(d) /\ IsTriviallyExcluded(d, integralImageSobel,
                                          lastWindow.i, lastWindow.j, width,
                                          lastWindow.blockWidth, lastWindow.blockHeight))

\* C12: for every window the scan visits and all densities d1 <= d2, the
\* window reaches evalStages_ under d1 if it does under d2; what the run did
\* with the window is what its own density decides.
C12_PruningMonotonic ==
    (WindowSeen /\ NPositive(edgesDensity)) =>
        /\ lastWindow.evalCalled <=> ReachesUnder(edgesDensity)
        /\ \A d1, d2 \in EdgesDensities :
              (NGe(d2, d1) /\ ReachesUnder(d2)) => ReachesUnder(d1)

\* a window of one pixel or more that the run prunes and a run of a lower
\* positive density evaluates
C12_Witness ==
    /\ WindowSeen /\ NPositive(edgesDensity)
    /\ lastWindow.blockWidth * lastWindow.blockHeight > 0
    /\ lastWindow.pruned
    /\ \E d1 \in EdgesDensities :
          NPositive(d1) /\ NLt(d1, edgesDensity) /\ ReachesUnder(d1)

(***************************************************************************)
(* C13: detect is a function of its arguments                              *)
(***************************************************************************)
ListSet(list) == {list[i] : i \in DOMAIN list}

\* C13: a detect call made after other detect calls with the same pixels,
\* width, height, initialScale, scaleFactor, stepSize, edgesDensity and data
\* returns the set of rectangles each of them returned.
C13_SameArgumentsSameResult ==
    phase = "merged" =>
        \A k \in DOMAIN returned : ListSet(result) = ListSet(returned[k])

\* the second call has returned, a rectangle merged of several included
C13_Witness ==
    /\ phase = "merged"
    /\ returned # <<>>
    /\ \E i \in DOMAIN result : result[i].total > 1
    /\ Len(result) > 1

(***************************************************************************)
(* C14: the stages are evaluated in order, up to the first that fails      *)
(***************************************************************************)
\* the cursors at which the stages declared from w on begin
RECURSIVE StageStarts(_, _)
StageStarts(d, w) ==
    IF w >= ArrayLen(d) THEN {}
    ELSE {w} \cup StageStarts(d, DeclaredNodesEnd(d, w + 2, d[w + 1]))

\* the cursor behind the stage that begins at w
StageEnd(d, w) == DeclaredNodesEnd(d, w + 2, d[w + 1])

\* what evalStages_ was given for the last window
LastContext ==
    EvalContext(data, integralImage, integralImageSquare, tiltedIntegralImage,
                lastWindow.i, lastWindow.j, width,
                lastWindow.blockWidth, lastWindow.blockHeight, lastWindow.scale)

\* the sum of the stage that begins at w is at least the threshold of the stage
StagePasses(c, w) ==
    NGe(EvalNodes(c, w + 2, DataRead(c.data, w + 1), Num(0), NoLog).stageSum,
        DataRead(c.data, w))

\* C14: for a cascade whose counts agree with its length, evalStages_
\* returns true exactly when the sum of every stage is at least the
\* threshold of the stage, having read the whole array; it returns false at
\* the first stage, in the order declared, whose sum is below its threshold,
\* having read nothing behind that stage.
C14_StagesInOrderEarlyExit ==
    (lastWindow.evalCalled /\ WellFormed(data)) =>
        \A c \in {LastContext} :
            LET starts == StageStarts(data, 2)
                failing == {w \in starts : ~StagePasses(c, w)}
            IN  /\ lastWindow.accept <=> failing = {}
                /\ lastWindow.accept => lastWindow.cursor = ArrayLen(data)
                /\ ~lastWindow.accept =>
                      \E w \in failing :
                          /\ \A v \in failing : w <= v
                          /\ lastWindow.cursor = StageEnd(data, w)

\* a window rejected at the first of two stages, and nothing of the second
\* was read
C14_Witness ==
    /\ lastWindow.evalCalled /\ WellFormed(data)
    /\ ~lastWindow.accept
    /\ Cardinality(StageStarts(data, 2)) = 2
    /\ lastWindow.cursor < ArrayLen(data)
    /\ lastWindow.blockWidth * lastWindow.blockHeight > 0

(***************************************************************************)
(* C15: the pruner is used with a positive edgesDensity only               *)
(***************************************************************************)
\* C15: when edgesDensity is not positive the edge table is not built, and
\* every window the scan is at is passed to evalStages_ without a call of
\* isTriviallyExcluded; when edgesDensity is positive, a window passed to
\* evalStages_ is one isTriviallyExcluded was called for and returned false.
C15_PrunerOnlyWhenPositive ==
    /\ ~NPositive(edgesDensity) =>
          /\ integralImageSobel = <<>>
          /\ WindowSeen => (~lastWindow.pruneCalled /\ lastWindow.evalCalled)
    /\ (NPositive(edgesDensity) /\ WindowSeen /\ lastWindow.evalCalled) =>
          /\ lastWindow.pruneCalled
          /\ ~IsTriviallyExcluded(edgesDensity, integralImageSobel,
                                  lastWindow.i, lastWindow.j, width,
                                  lastWindow.blockWidth, lastWindow.blockHeight)

\* with edgesDensity 0, a window of one pixel or more has been evaluated
\* without a call of the pruner, and detect has returned
C15_Witness ==
    /\ edgesDensity = <<0, 1>>
    /\ lastWindow.evalCalled /\ ~lastWindow.pruneCalled
    /\ lastWindow.blockWidth * lastWindow.blockHeight > 0
    /\ phase = "merged"

(***************************************************************************)
(* C16: detect returns the merger's list                                   *)
(***************************************************************************)
\* C16: the list detect returns is the list mergeRectangles_ makes of the
\* raw list: every rectangle in it has a total of 1 or more, none the total
\* 0 the scanner gives a raw rectangle.
C16_ReturnsMergedTotals ==
    phase = "merged" =>
        /\ result = MergeRectangles(rects)
        /\ \A i \in DOMAIN result : result[i].total >= 1

\* detect has returned a rectangle for one raw rectangle and one for several
C16_Witness ==
    /\ phase = "merged"
    /\ lastWindow.evalCalled
    /\ \A k \in DOMAIN rects : rects[k].total = 0
    /\ \E i, j \in DOMAIN result : result[i].total = 1 /\ result[j].total > 1

(***************************************************************************)
(* C17: TrackingMath.intersectRect                                         *)
(***************************************************************************)
\* the box <<a0, b0, a1, b1>> of corners (a0, b0) and (a1, b1)
BoxWellFormed(b) == b[1] <= b[3] /\ b[2] <= b[4]

\* box b lies strictly outside box c along the x or the y axis
StrictlyOutside(b, c) ==
    \/ b[3] < c[1] \/ c[3] < b[1]
    \/ b[4] < c[2] \/ c[4] < b[2]

FirstBox == <<args[1], args[2], args[3], args[4]>>
SecondBox == <<args[5], args[6], args[7], args[8]>>

\* C17: for well-formed boxes intersectRect returns false exactly when one
\* box lies strictly outside the other along the x or the y axis, so that
\* boxes touching on an edge or in a corner intersect, and it returns the
\* same for the two boxes exchanged.
C17_IntersectRectInclusive ==
    (phase = "intersected" /\ BoxWellFormed(FirstBox) /\ BoxWellFormed(SecondBox)) =>
        /\ answer = ~StrictlyOutside(FirstBox, SecondBox)
        /\ answer = IntersectRect(args[5], args[6], args[7], args[8],
                                  args[1], args[2], args[3], args[4])

\* two boxes of positive area that touch in one corner only
C17_Witness ==
    /\ phase = "intersected"
    /\ args[1] < args[3] /\ args[2] < args[4]
    /\ args[5] < args[7] /\ args[6] < args[8]
    /\ args[3] = args[5] /\ args[4] = args[6]
    /\ answer = TRUE

(***************************************************************************)
(* C18: the tables, the cascade and the pixel buffer are only read         *)
(***************************************************************************)
\* C18: no step of a detect call, from the first test of the while loop to
\* the return of mergeRectangles_, changes the cascade data array, the pixel
\* buffer, or the sum, squared-sum, tilted or edge integral table
C18_ArraysNeverWritten == [][UNCHANGED arrayVars]_vars

\* a call has returned a nonempty list; its last window went through the
\* pruner, was not excluded, and was evaluated against the cascade
C18_Witness ==
    /\ phase = "merged"
    /\ ArrayLen(result) > 0
    /\ lastWindow.pruneCalled /\ lastWindow.evalCalled
    /\ ArrayLen(integralImageSobel) > 0
    /\ integralImage = IntegralImage(pixels.gray, width, height)

(***************************************************************************)
(* C19: the windows handed to the pruner and the evaluator are in bounds   *)
(***************************************************************************)
\* the window lastWindow was handed to isTriviallyExcluded or evalStages_
WindowPassed == lastWindow.pruneCalled \/ lastWindow.evalCalled

\* wbA, wbB, wbD, wbC: i * width + j, + blockWidth, + blockHeight * width,
\* + blockHeight * width + blockWidth
CornerIndices ==
    {lastWindow.i * width + lastWindow.j + dy * lastWindow.blockHeight * width
        + dx * lastWindow.blockWidth : dx \in {0, 1}, dy \in {0, 1}}

\* C19: for every window detect hands to isTriviallyExcluded or evalStages_,
\* the four corner indices lie in [0, width * height), inside the tables,
\* and the far corner is in the intended row and column:
\* j + blockWidth < width and i + blockHeight < height
C19_WindowCornersInBounds ==
    WindowPassed =>
        /\ \A c \in CornerIndices :
              /\ 0 <= c /\ c < width * height
              /\ c \in DOMAIN integralImage
              /\ c \in DOMAIN integralImageSquare
              /\ lastWindow.pruneCalled => c \in DOMAIN integralImageSobel
        /\ 0 <= lastWindow.j /\ lastWindow.j + lastWindow.blockWidth < width
        /\ 0 <= lastWindow.i /\ lastWindow.i + lastWindow.blockHeight < height

\* a window with a block of at least a pixel, away from the first row and
\* the first column and ending in the last ones the bound allows, went
\* through the pruner and the evaluator
C19_Witness ==
    /\ lastWindow.pruneCalled /\ lastWindow.evalCalled
    /\ lastWindow.blockWidth > 0 /\ lastWindow.blockHeight > 0
    /\ lastWindow.i > 0 /\ lastWindow.j > 0
    /\ lastWindow.j + lastWindow.blockWidth = width - 1
    /\ lastWindow.i + lastWindow.blockHeight = height - 1

(***************************************************************************)
(* C20: the windows detect enumerates                                      *)
(***************************************************************************)
\* floor of a finite number
Floor(x) == x[1] \div x[2]

\* no scan of the inputs modelled goes through more scales than this
MaxScales == 16

\* the multiples of st in [0, n)
Multiples(st, n) ==
    {m \in 0 .. n - 1 : IF st = 0 THEN m = 0 ELSE m % st = 0}

\* the windows claimed at the scale s: every (row, col) on the step grid
GridAt(s) ==
    LET bw == Floor(NMul(s, DataRead(data, 0)))
        bh == Floor(NMul(s, DataRead(data, 1)))
        st == Floor(NAdd(NMul(s, stepSize), Half))
    IN  {<<s, row, col>> : row \in Multiples(st, height - bh),
                           col \in Multiples(st, width - bw)}

\* the block at the scale s fits: blockWidth < width and blockHeight < height
Fits(s) ==
    /\ Floor(NMul(s, DataRead(data, 0))) < width
    /\ Floor(NMul(s, DataRead(data, 1))) < height

RECURSIVE GridFrom(_, _)
\* the windows claimed from the scale s on, for as long as the block fits
GridFrom(s, n) ==
    IF n = 0 \/ ~Fits(s) THEN {}
    ELSE GridAt(s) \cup GridFrom(NMul(s, scaleFactor), n - 1)

\* the windows claimed: those of scale_k = initialScale * scaleFactor^k,
\* k = 1, 2, ...
ClaimedWindows == GridFrom(NMul(initialScale, scaleFactor), MaxScales)

\* the scan is over: the while loop has ended
ScanOver == phase \in {"pairs", "group", "emit", "merged", "threw"}

\* the windows visited are claimed ones, and all of them once the scan is over
VisitedAreClaimed ==
    /\ visited \subseteq ClaimedWindows
    /\ ScanOver => visited = ClaimedWindows

\* no window is scanned at the scale initialScale
InitialScaleNotScanned == \A v \in visited : v[1] # initialScale

\* no window is visited twice
NoWindowTwice == ~revisited

\* C20: detect enumerates exactly the windows of the scales
\* initialScale * scaleFactor^k, k >= 1, whose block fits, at every row and
\* column that is a multiple of the step; the scale initialScale itself is
\* never scanned, and no window is visited twice
C20_ExactWindowsOnce ==
    /\ VisitedAreClaimed
    /\ InitialScaleNotScanned
    /\ NoWindowTwice

(***************************************************************************)
(* C21: the read cursor of evalStages_                                     *)
(***************************************************************************)
\* C21: within one evalStages_ call the first cascade element read is
\* data[2], every read is at an index above the one before (the next one:
\* the cursor never moves backward and skips nothing), the cursor at the
\* return is one past the last read, and for a well-formed cascade whose
\* stages all pass it is data.length, the end of the declared stage, node
\* and rectangle records, every one of which has been read
C21_CursorForwardOnly ==
    lastWindow.evalCalled =>
        /\ Len(lastWindow.reads) > 0 => lastWindow.reads[1] = 2
        /\ \A k \in 1 .. Len(lastWindow.reads) - 1 :
              /\ lastWindow.reads[k + 1] > lastWindow.reads[k]
              /\ lastWindow.reads[k + 1] = lastWindow.reads[k] + 1
        /\ lastWindow.cursor = 2 + Len(lastWindow.reads)
        /\ (WellFormed(data) /\ lastWindow.accept) =>
              /\ lastWindow.cursor = ArrayLen(data)
              /\ lastWindow.cursor = DeclaredEnd(data, 2)
              /\ {lastWindow.reads[k] : k \in DOMAIN lastWindow.reads}
                    = 2 .. ArrayLen(data) - 1

\* a window passed the one stage of a well-formed cascade of two nodes, an
\* upright and a tilted one, and every element from data[2] on was read
C21_Witness ==
    /\ lastWindow.evalCalled /\ lastWindow.accept
    /\ WellFormed(data)
    /\ data = CascadeImage
    /\ Len(lastWindow.reads) = ArrayLen(data) - 2
    /\ lastWindow.cursor = ArrayLen(data)

(***************************************************************************)
(* C22: what a node adds to the stage sum                                  *)
(***************************************************************************)
\* the square of standardDeviation: the variance if it is above 0, else 1
DeviationSquared(variance) == IF NPositive(variance) THEN variance ELSE Num(1)

\* the indices of the nodeThreshold of the n nodes declared from w on
RECURSIVE NodeTests(_, _, _)
NodeTests(d, w, n) ==
    IF n = 0 THEN {}
    ELSE {w + 2 + 5 * d[w + 1]} \cup NodeTests(d, w + 2 + 5 * d[w + 1] + 3, n - 1)

\* the nodes of the stages evalStages_ went through: those that begin
\* before the cursor at the return
NodesEvaluated ==
    UNION {NodeTests(data, w + 2, data[w + 1]) :
              w \in {v \in StageStarts(data, 2) : v < lastWindow.cursor}}

\* the first nodes of the stages declared
FirstNodes ==
    {w + 4 + 5 * data[w + 3] : w \in {v \in StageStarts(data, 2) : data[v + 1] > 0}}

\* C22: each addition to a stage sum is of the node's leftValue when
\* rectsSum * inverseArea < nodeThreshold * standardDeviation and of its
\* rightValue otherwise, where standardDeviation is the root of the variance
\* when that is above 0 and 1 when it is not; every node of a stage gone
\* through makes exactly one addition, to the sum of its own stage, which
\* starts at 0 with the first node of the stage
C22_NodeAddsLeftOrRight ==
    (lastWindow.evalCalled /\ WellFormed(data)) =>
        \A c \in {LastContext} :
            /\ \A k \in DOMAIN lastWindow.adds :
                  \A a \in {lastWindow.adds[k]} :
                      /\ a.value =
                            IF LtTimesSqrt(NMul(a.rectsSum, c.inverseArea),
                                           DataRead(data, a.at),
                                           DeviationSquared(c.variance))
                            THEN DataRead(data, a.at + 1)
                            ELSE DataRead(data, a.at + 2)
                      /\ a.after = NAdd(a.before, a.value)
                      /\ a.before = IF a.at \in FirstNodes THEN Num(0)
                                    ELSE lastWindow.adds[k - 1].after
            /\ {lastWindow.adds[k].at : k \in DOMAIN lastWindow.adds} = NodesEvaluated
            /\ Len(lastWindow.adds) = Cardinality(NodesEvaluated)
            /\ ~NPositive(c.variance) => DeviationSquared(c.variance) = Num(1)

\* a window whose variance is above 0 went through a stage of two nodes,
\* one of which added its leftValue and the other its rightValue
C22_Witness ==
    /\ lastWindow.evalCalled /\ WellFormed(data)
    /\ NPositive(LastContext.variance)
    /\ Len(lastWindow.adds) = 2
    /\ \E k, m \in DOMAIN lastWindow.adds :
          /\ lastWindow.adds[k].value = DataRead(data, lastWindow.adds[k].at + 1)
          /\ lastWindow.adds[k].value # DataRead(data, lastWindow.adds[k].at + 2)
          /\ lastWindow.adds[m].value = DataRead(data, lastWindow.adds[m].at + 2)
          /\ lastWindow.adds[m].value # DataRead(data, lastWindow.adds[m].at + 1)

(***************************************************************************)
(* C23: find changes the array by path compression only                    *)
(***************************************************************************)
\* the elements on the path of parent pointers from i to its root in p,
\* both included
RECURSIVE PathToRoot(_, _)
PathToRoot(p, i) == IF p[i] = i THEN {i} ELSE {i} \cup PathToRoot(p, p[i])

\* the root of i in p: the self-parented element its path ends in
RECURSIVE RootOf(_, _)
RootOf(p, i) == IF p[i] = i THEN i ELSE RootOf(p, p[i])

\* the partition p stands for, as the pairs of elements of one set
Partition(p) == {ij \in (DOMAIN p) \X (DOMAIN p) : RootOf(p, ij[1]) = RootOf(p, ij[2])}

\* after find(i) every element on the former path from i to its root has
\* the root as parent, every other parent entry is as before, find returned
\* the root, and the representative of every element, so the partition, is
\* the same as before the call
FindCompressed ==
    (phase = "ds" /\ lastFind.called) =>
        \A before \in {lastFind.parent} :
            /\ lastFind.returned = RootOf(before, lastFind.i)
            /\ \A k \in DOMAIN parent :
                  parent[k] = IF k \in PathToRoot(before, lastFind.i)
                              THEN RootOf(before, lastFind.i)
                              ELSE before[k]
            /\ \A k \in DOMAIN parent : RootOf(parent, k) = RootOf(before, k)
            /\ Partition(parent) = Partition(before)

\* a step that changes the partition is a union call
PartitionChangedByUnion ==
    (phase = "ds" /\ Partition(parent') # Partition(parent))
        => \E a, b \in DOMAIN parent : Union(a, b)

\* C23: find(i) changes the parent array by path compression only: every
\* element on the former path from i to its root gets the root as parent,
\* every other entry and the representative of every element stay as they
\* were; and only a union call changes the partition
C23_FindCompressesOnly == []FindCompressed /\ [][PartitionChangedByUnion]_vars

\* find was called for an element two parent pointers away from its root,
\* and changed the array
C23_Witness ==
    /\ phase = "ds" /\ lastFind.called
    /\ Cardinality(PathToRoot(lastFind.parent, lastFind.i)) >= 3
    /\ parent # lastFind.parent
    /\ parent[lastFind.i] = lastFind.returned

(***************************************************************************)
(* C24: the merger does not depend on the order of the raw rectangles      *)
(***************************************************************************)
\* the exchanges of two neighbours of the raw list; every permutation is a
\* sequence of them, and every list the merger is started with is started
\* with in every order, so that a result that is the same after each
\* exchange is the same after every permutation
IndexPermutations ==
    {[k \in RectIdx |-> IF k = a THEN a + 1 ELSE IF k = a + 1 THEN a ELSE k] :
        a \in {b \in RectIdx : b + 1 \in RectIdx}}

\* the rectangles of list with the number of times each occurs
Multiset(list) ==
    [r \in {list[i] : i \in DOMAIN list} |->
        Cardinality({i \in DOMAIN list : list[i] = r})]

\* the overlap test holds for the pair in at least one direction
EitherWay(i, j) ==
    ClaimedUnion(rects[i], rects[j]) \/ ClaimedUnion(rects[j], rects[i])

OverlapNeighbours(S) == S \cup {j \in RectIdx : \E i \in S : EitherWay(i, j)}

\* the rectangles linked to those of S through a chain of such pairs
RECURSIVE OverlapClosure(_)
OverlapClosure(S) ==
    IF OverlapNeighbours(S) = S THEN S ELSE OverlapClosure(OverlapNeighbours(S))

\* C24: the list mergeRectangles_ returns for a permutation of the raw list
\* holds the same rectangles (x, y, width, height, total) the same
\* number of times as the list returned for the raw list itself; and two
\* raw rectangles are in one group exactly when they are linked through a
\* chain of pairs for which the overlap test holds in at least one direction
C24_OrderIndependent ==
    phase = "merged" =>
        /\ \A f \in IndexPermutations :
              Multiset(MergeRectangles([k \in RectIdx |-> rects[f[k]]]))
                 = Multiset(result)
        /\ \A i \in RectIdx :
              {j \in RectIdx : FindRep(parent, i) = FindRep(parent, j)}
                 = OverlapClosure({i})

\* three rectangles, not all the same, of which the first two are in one
\* group through a pair for which the test holds in one direction only, and
\* the third is in a group of its own: the list returned changes its order
\* under a permutation
C24_Witness ==
    /\ phase = "merged"
    /\ ArrayLen(rects) = 3
    /\ Len(result) = 2
    /\ FindRep(parent, 0) = FindRep(parent, 1)
    /\ <<0, 1>> \in unionCalls /\ <<1, 0>> \notin unionCalls
    /\ \E f \in IndexPermutations :
          MergeRectangles([k \in RectIdx |-> rects[f[k]]]) # result

(***************************************************************************)
(* C25: the totals count every raw rectangle once                          *)
(***************************************************************************)
\* the sum of the totals of the first n rectangles of list
RECURSIVE SumTotals(_, _)
SumTotals(list, n) == IF n = 0 THEN 0 ELSE list[n].total + SumTotals(list, n - 1)

\* C25: for a list of n raw rectangles, the totals of the rectangles
\* returned sum to n, there are as many rectangles returned as there are
\* distinct representatives in the disjoint set, between 1 and n of them
\* when n > 0, and the raw rectangles can be assigned to the rectangles
\* returned, each to one, those of one set to the same, so that the total of
\* each rectangle returned is the number of raw rectangles assigned to it
C25_TotalsSumToInput ==
    phase = "merged" =>
        /\ SumTotals(result, Len(result)) = ArrayLen(rects)
        /\ Len(result) = Cardinality(Reps)
        /\ ArrayLen(rects) > 0 => 1 <= Len(result) /\ Len(result) <= ArrayLen(rects)
        /\ \E g \in [RectIdx -> 1 .. Len(result)] :
              /\ \A k, l \in RectIdx :
                    g[k] = g[l] <=> FindRep(parent, k) = FindRep(parent, l)
              /\ \A i \in 1 .. Len(result) :
                    result[i].total = Cardinality({k \in RectIdx : g[k] = i})

\* three raw rectangles came back as a rectangle of total 2 and one of
\* total 1
C25_Witness ==
    /\ phase = "merged"
    /\ ArrayLen(rects) = 3
    /\ Len(result) = 2
    /\ {result[i].total : i \in 1 .. Len(result)} = {1, 2}

(***************************************************************************)
(* C26: the parent array is a forest                                       *)
(***************************************************************************)
\* following the parent pointers from i, a self-parented element is reached
\* within n steps
RECURSIVE ReachesRoot(_, _, _)
ReachesRoot(p, i, n) ==
    \/ p[i] = i
    \/ n > 0 /\ p[i] \in DOMAIN p /\ ReachesRoot(p, p[i], n - 1)

\* every parent value is an index of the array, and the parent pointers
\* from any element lead to a root without coming back to an element: the
\* walk is over within length - 1 steps
Forest ==
    phase = "ds" =>
        /\ \A k \in DOMAIN parent : parent[k] \in DOMAIN parent
        /\ \A k \in DOMAIN parent : ReachesRoot(parent, k, ArrayLen(parent) - 1)

\* union(a, b) for a and b of one set, a = b included, leaves the partition
\* as it is: a step that changes the partition is no such call
UnionWithinSetKeepsPartition ==
    (phase = "ds" /\ Partition(parent') # Partition(parent)) =>
        \A a, b \in DOMAIN parent :
            RootOf(parent, a) = RootOf(parent, b) => ~Union(a, b)

\* C26: after construction and after any sequence of union and find calls
\* with arguments in 0 .. length - 1 the parent array is a forest, every
\* parent value in 0 .. length - 1 and every walk along the parent pointers
\* ending in a self-parented root, so that find terminates; and union(i, j)
\* for i and j of one set, i = j included, does not change the partition
C26_ParentIsForest == []Forest /\ [][UnionWithinSetKeepsPartition]_vars

\* union(a, a) has been called for an element of a set of three, in which
\* one element is two parent pointers away from the root
C26_Witness ==
    /\ phase = "ds"
    /\ \E a, i \in DOMAIN parent :
          /\ <<a, a>> \in unions
          /\ parent[i] # i /\ parent[parent[i]] # parent[i]
          /\ RootOf(parent, a) = RootOf(parent, i)
          /\ Cardinality({k \in DOMAIN parent : RootOf(parent, k) = RootOf(parent, a)}) = 3

(***************************************************************************)
(* C27: the cells read for a rectangle sum                                 *)
(***************************************************************************)
\* the indices at which the n nodes declared from w on begin
RECURSIVE NodeStarts(_, _, _)
NodeStarts(d, w, n) ==
    IF n = 0 THEN {}
    ELSE {w} \cup NodeStarts(d, w + 2 + 5 * d[w + 1] + 3, n - 1)

\* the indices at which the rectangle records of a well-formed cascade begin
RectStarts(d) ==
    UNION {{n + 2 + 5 * r : r \in 0 .. d[n + 1] - 1} :
              n \in UNION {NodeStarts(d, w + 2, d[w + 1]) : w \in StageStarts(d, 2)}}

\* every Haar rectangle lies inside the base window
InsideBase(d) ==
    \A r \in RectStarts(d) :
        /\ d[r] >= 0 /\ d[r + 1] >= 0
        /\ d[r] + d[r + 2] <= d[0]
        /\ d[r + 1] + d[r + 3] <= d[1]

\* C27: for a cascade whose Haar rectangles all lie inside the base window,
\* every index at which evalStages_ reads the upright or the tilted integral
\* table for a window of the scan lies in [0, width * height)
C27_RectCellsInBuffer ==
    (lastWindow.evalCalled /\ WellFormed(data) /\ InsideBase(data)) =>
        \A cell \in lastWindow.cells : 0 <= cell[2] /\ cell[2] < width * height

(***************************************************************************)
(* C28: 'run' and 'stop' alternate; redundant calls do nothing             *)
(***************************************************************************)
\* the 'run' and 'stop' events among those emitted, in order
RunsAndStops == SelectSeq(emitted, LAMBDA e : e \in {"run", "stop"})

\* the events are 'run', 'stop', 'run', ... and the task is running exactly
\* when the last of them is 'run'
Alternate ==
    /\ \A k \in 1 .. Len(RunsAndStops) :
          RunsAndStops[k] = (IF k % 2 = 1 THEN "run" ELSE "stop")
    /\ running_ = (Len(RunsAndStops) % 2 = 1)

\* a run() of a running task and a stop() of a stopped one leave the task
\* and the trackers as they were
RedundantCallDoesNothing ==
    /\ (taskCall.op = "run" /\ taskCall.before.running_) => TaskState = taskCall.before
    /\ (taskCall.op = "stop" /\ ~taskCall.before.running_) => TaskState = taskCall.before

\* the other calls emit their event once and set the flag, when no listener
\* calls back into the task
CallThatActs ==
    /\ (taskCall.op = "run" /\ ~taskCall.before.running_ /\ taskCall.nested = 0) =>
          (running_ /\ emitted = Append(taskCall.before.emitted, "run"))
    /\ (taskCall.op = "stop" /\ taskCall.before.running_ /\ taskCall.nested = 0) =>
          (~running_ /\ emitted = Append(taskCall.before.emitted, "stop"))

\* C28: whatever run() and stop() calls are made on a TrackerTask, the
\* 'run' and 'stop' events it emits alternate, the first being 'run'; run()
\* emits 'run' and sets running only on a task that is not running, stop()
\* emits 'stop' and clears running only on a running one, and a redundant
\* run() or stop() emits nothing and changes no state.
C28_RunStopAlternate ==
    phase = "task" => (Alternate /\ RedundantCallDoesNothing /\ CallThatActs)

\* a run() of a task that is running, after it has been run, stopped and
\* run again
C28_Witness ==
    /\ phase = "task"
    /\ taskCall.op = "run" /\ taskCall.before.running_
    /\ Len(RunsAndStops) >= 3

(***************************************************************************)
(* C29: the re-emit listener is on the current tracker while running       *)
(***************************************************************************)
\* the task has one listener on its tracker when it is running and none
\* when it is not, and none on any other tracker
ListenerWhereRunning ==
    /\ Cardinality(listeners[tracker_]) = (IF running_ THEN 1 ELSE 0)
    /\ \A t \in Trackers \ {tracker_} : listeners[t] = {}

\* a 'track' event of the current tracker of a running task is re-emitted
\* once, and no other is re-emitted
ReemittedOnceWhileRunning ==
    taskCall.op = "track" =>
        Len(emitted) - Len(taskCall.before.emitted) =
            (IF taskCall.before.running_ /\ taskCall.tracker = taskCall.before.tracker_
             THEN 1 ELSE 0)

\* C29: after any run(), stop() and setTracker() calls on a TrackerTask, the
\* task has a re-emit listener on its current tracker exactly when it is
\* running and none on any other tracker, so each 'track' event of the
\* current tracker is re-emitted once while running and none after stop().
C29_ListenerOnCurrentTracker ==
    phase = "task" => (ListenerWhereRunning /\ ReemittedOnceWhileRunning)

(***************************************************************************)
(* C30: ObjectTracker.track and the constructor                            *)
(***************************************************************************)
\* the results of detect for each classifier, one after the other
RECURSIVE Concatenation(_, _)
Concatenation(items, found) ==
    IF items = <<>> THEN <<>>
    ELSE found[Head(items)] \o Concatenation(Tail(items), found)

\* track throws and emits nothing when no classifiers have been set, and
\* else emits one event with the results of detect in classifier order
TrackEmitsOnce ==
    objectCall.op = "track" =>
        IF ~objectCall.classifiers.defined
        THEN objectCall.outcome = "threw" /\ tracked = objectCall.tracked
        ELSE /\ objectCall.outcome = "returned"
             /\ tracked = Append(objectCall.tracked,
                                 Concatenation(objectCall.classifiers.items,
                                               objectCall.found))

\* the names the constructor was given
NamesGiven ==
    IF objectCall.opt.given = "nothing" THEN {}
    ELSE IF objectCall.opt.given = "string" THEN {objectCall.opt.name}
    ELSE {objectCall.opt.names[k] : k \in DOMAIN objectCall.opt.names}

\* the constructor throws and sets no classifiers when it is given a name
\* of no classifier
UnknownNameThrows ==
    (objectCall.op = "new" /\ NamesGiven \ NamedCascades # {}) =>
        (objectCall.outcome = "threw" /\ ~classifiers.defined)

\* C30: ObjectTracker.track throws without emitting any event when no
\* classifiers have been set, and otherwise emits exactly one 'track' event
\* per call whose data is the concatenation, in classifier order, of the
\* ViolaJones.detect results for each classifier; constructing an
\* ObjectTracker with an unknown classifier name throws and sets no
\* classifiers.
C30_TrackEmitsConcatenation ==
    phase = "object" => (TrackEmitsOnce /\ UnknownNameThrows)

====
